---- MODULE Spec2Model ----
(***************************************************************************)
(* Model of rewarped's differentiable step: UpdateFunction.forward and     *)
(* UpdateFunction.backward (src/rewarped/autograd.py) and the WarpEnv      *)
(* stepping loop that drives them (src/rewarped/warp_env.py).              *)
(*                                                                         *)
(* Arrays are abstracted to one value of Val each (all arithmetic is       *)
(* modulo NumVals); every wp.array has a value and an adjoint (.grad).     *)
(* State, Control, Model and Mesh objects live on a heap and are referred  *)
(* to by identity, so that aliasing and rebinding are visible.             *)
(***************************************************************************)
EXTENDS Integers, Sequences, FiniteSets, TLC

\* ------------------------------------------------------------------ bounds
NumVals == 2
MaxSteps == 2
MaxResets == 2
MaxEdits == 1
MaxCalls == 4
SimSubsteps == 2
TensorLen == 1
\* episode_length: an episode no run explored here completes, and the
\* shortest one (it ends with every step)
LongEpisode == 3
ShortEpisode == 1
\* adjoint entries and policies of the post-processing of backward: finite
\* entries up to MaxAdj in size, clamp ranges up to MaxClip, rescaling by
\* RescaleBy
MaxAdj == 4
MaxClip == 2
RescaleBy == 2
\* environments simulated side by side (num_envs)
NumEnvs == 2

Val == 0 .. (NumVals - 1)
Envs == 1 .. NumEnvs

Min(x, y) == IF x <= y THEN x ELSE y
\* the element of a one-element set
The(S) == CHOOSE r \in S : TRUE
Range(s) == {s[i] : i \in DOMAIN s}
Add(x, y) == (x + y) % NumVals
Mul(x, y) == (x * y) % NumVals

\* Python's s[lo:hi] (0-based, hi exclusive, clipped to the sequence)
Slice(s, lo, hi) == SubSeq(s, Min(lo, Len(s)) + 1, Min(hi, Len(s)))

\* ------------------------------------------------------------------- heap
ModelId == 1
MeshId == ModelId + 1
FirstId == MeshId + 1
\* model.shape_geo_src: the geometries of the model that are wp.sim.Mesh
MeshSeq == <<MeshId>>

StateNames == {"q", "f"}
ControlNames == {"act"}

Zeros(names) == [n \in names |-> 0]

\* An object of the simulation holds, for each attribute name, the array's
\* value (a), its adjoint (g) and how often the attribute was bound to
\* another array since the object was made (arr).
\* model.state(): a State whose arrays are cloned from the model's initial state
NewState == [kind |-> "State", a |-> [n \in StateNames |-> IF n = "q" THEN 1 ELSE 0],
             g |-> Zeros(StateNames), arr |-> Zeros(StateNames)]
\* model.state(copy="zeros")
ZeroState == [kind |-> "State", a |-> Zeros(StateNames), g |-> Zeros(StateNames),
              arr |-> Zeros(StateNames)]
\* model.control()
NewControl == [kind |-> "Control", a |-> Zeros(ControlNames), g |-> Zeros(ControlNames),
               arr |-> Zeros(ControlNames)]
NewModel == [kind |-> "Model", a |-> [p |-> 1], g |-> [p |-> 0], arr |-> [p |-> 0]]
NewMesh == [kind |-> "Mesh", a |-> [points |-> 0], g |-> [points |-> 0],
            arr |-> [points |-> 0]]

Ref(o, n) == <<o, n>>

\* setattr(obj, name, wp.from_torch(tensor)), the call assign_tensors keeps
\* commented out: binds the attribute to another array
SetAttr(h, o, n, v) == [h EXCEPT ![o].a[n] = v, ![o].arr[n] = 1]
\* wp_array.assign(v) and wp_array.grad.assign(v): write into the existing storage
SetA(h, o, n, v) == [h EXCEPT ![o].a[n] = v]
SetG(h, o, n, v) == [h EXCEPT ![o].g[n] = v]
AccG(h, o, n, v) == [h EXCEPT ![o].g[n] = Add(@, v)]

\* ---------------------------------------------------------------- tensors
\* A torch tensor either owns its storage (own) or is a zero-copy view of a
\* wp.array (wp.to_torch), in which case it reads the array's current value.
Own(v) == [own |-> TRUE, v |-> v, obj |-> 0, name |-> ""]
View(o, n) == [own |-> FALSE, v |-> 0, obj |-> o, name |-> n]
TVal(h, t) == IF t.own THEN t.v ELSE h[t.obj].a[t.name]
\* tensor.clone()
Clone(h, t) == Own(TVal(h, t))

\* A names argument of forward: a sequence of names, or (when the caller binds
\* a tensor to the parameter) a tensor, whose len() is its first dimension.
Names(s) == [tensor |-> FALSE, names |-> s]
TensorAsNames == [tensor |-> TRUE, names |-> <<>>]
NLen(nm) == IF nm.tensor THEN TensorLen ELSE Len(nm.names)

\* ---------------------------------------------------------------- machine
\* The memory forward/backward work on: heap, tapes, and the integrator's
\* graph handles, with the log of the current call and its pending exception.
NoTape == 0
EmptyTape == [launches |-> <<>>, gradients |-> {}]
NoGraph == [set |-> FALSE, partial |-> FALSE, ops |-> <<>>]
NoFail == [at |-> "none", k |-> 0]

Ev(e, on) == [ev |-> e, on |-> on]
Log(m, e, on) == [m EXCEPT !.log = Append(@, Ev(e, on))]
Raise(m, e, n) == [m EXCEPT !.err = e, !.errname = n, !.log = Append(@, Ev("raise", e))]
Ok(m) == m.err = ""

\* ------------------------------------------------- physics update and tape
\* One recorded run of the physics update: the buffers it ran on, the number
\* of substeps it ran (nsub) and the first substep its adjoint reaches (lo).
Launch(sin, mids, sout, ctl) ==
    [sin |-> sin, mids |-> mids, sout |-> sout, ctl |-> ctl, nsub |-> SimSubsteps, lo |-> 1]
Chain(L) == <<L.sin>> \o L.mids \o <<L.sout>>

\* Substep i of the physics update: reads Chain[i] (and, for "dyn", the
\* control, the model parameter and the mesh) and writes q of Chain[i+1].
\* "free" reads the state only; "noop" launches no kernel at all.
PhysSub(kind, h, L, i) ==
    LET cur == Chain(L)[i]
        nxt == Chain(L)[i + 1]
    IN  CASE kind = "dyn" ->
               SetA(h, nxt, "q",
                    Add(Add(Mul(h[cur].a.q, h[ModelId].a.p), h[cur].a.f),
                        Add(h[L.ctl].a.act, h[MeshId].a.points)))
          [] kind = "free" -> SetA(h, nxt, "q", Add(Add(h[cur].a.q, h[cur].a.f), 1))
          [] OTHER -> h

RECURSIVE SimRun(_, _, _, _)
SimRun(kind, h, L, i) ==
    IF i > L.nsub THEN h
    ELSE The({SimRun(kind, x, L, i + 1) : x \in {PhysSub(kind, h, L, i)}})

\* sim_update(update_params, sim_params, states, control)
SimUpdate(kind, h, L) == SimRun(kind, h, L, 1)

\* The arrays the kernels of substep i take as arguments
TouchedSub(kind, L, i) ==
    LET cur == Chain(L)[i]
        nxt == Chain(L)[i + 1]
    IN  CASE kind = "dyn" -> {Ref(cur, "q"), Ref(cur, "f"), Ref(nxt, "q"), Ref(L.ctl, "act"),
                              Ref(ModelId, "p"), Ref(MeshId, "points")}
          [] kind = "free" -> {Ref(cur, "q"), Ref(cur, "f"), Ref(nxt, "q")}
          [] OTHER -> {}

Touched(kind, L) == UNION {TouchedSub(kind, L, i) : i \in L.lo .. L.nsub}

\* Adjoint of substep i: accumulates into the adjoints of its inputs
PhysSubAdj(kind, h, L, i) ==
    LET cur == Chain(L)[i]
        nxt == Chain(L)[i + 1]
        gn == h[nxt].g.q
    IN  CASE kind = "dyn" ->
               LET h1 == AccG(h, cur, "q", Mul(h[ModelId].a.p, gn))
                   h2 == AccG(h1, cur, "f", gn)
                   h3 == AccG(h2, L.ctl, "act", gn)
                   h4 == AccG(h3, ModelId, "p", Mul(h[cur].a.q, gn))
               IN  AccG(h4, MeshId, "points", gn)
          [] kind = "free" -> AccG(AccG(h, cur, "q", gn), cur, "f", gn)
          [] OTHER -> h

RECURSIVE AdjRun(_, _, _, _)
AdjRun(kind, h, L, i) ==
    IF i < L.lo THEN h
    ELSE The({AdjRun(kind, x, L, i - 1) : x \in {PhysSubAdj(kind, h, L, i)}})

\* The reverse pass over a sequence of recorded launches, last launch first
RECURSIVE AdjLaunches(_, _, _, _)
AdjLaunches(kind, h, ls, j) ==
    IF j < 1 THEN h
    ELSE The({AdjLaunches(kind, x, ls, j - 1) : x \in {AdjRun(kind, h, ls[j], ls[j].nsub)}})

RECURSIVE FwdLaunches(_, _, _, _)
FwdLaunches(kind, h, ls, j) ==
    IF j > Len(ls) THEN h
    ELSE The({FwdLaunches(kind, x, ls, j + 1) : x \in {SimUpdate(kind, h, ls[j])}})

\* `with tape:` around a physics update: the tape records its launches
TapeRecord(kind, tp, L) ==
    IF kind = "noop" \/ L.nsub = 0 THEN tp ELSE [tp EXCEPT !.launches = Append(@, L)]

\* tape.gradients after tape.backward(): every array a recorded launch touches
TapeGradients(kind, tp) ==
    tp.gradients \cup UNION {Touched(kind, tp.launches[j]) : j \in DOMAIN tp.launches}

\* tape.zero(): zero the adjoint of every array in tape.gradients
TapeZero(h, tp) ==
    [o \in DOMAIN h |->
        [h[o] EXCEPT !.g = [n \in DOMAIN h[o].g |->
                               IF Ref(o, n) \in tp.gradients THEN 0 ELSE h[o].g[n]]]]

\* -------------------------------------------------------- autograd helpers
RECURSIVE AssignNamed(_, _, _, _, _)
AssignNamed(h, x_out, names, tensors, i) ==
    IF i > Min(Len(names), Len(tensors)) THEN h
    ELSE The({AssignNamed(x, x_out, names, tensors, i + 1) :
                 x \in {SetA(h, x_out, names[i], TVal(h, tensors[i]))}})

\* assign_tensors(x, x_out, names, tensors): copy every array of x whose name
\* is not declared into x_out, then every declared tensor into x_out
AssignUndeclared(h, x, x_out, names) ==
    [h EXCEPT ![x_out].a = [n \in DOMAIN h[x_out].a |->
                               IF n \in DOMAIN h[x].a /\ n \notin Range(names)
                               THEN h[x].a[n] ELSE h[x_out].a[n]]]

\* variant: the arrays of x are copied after the declared tensors, whatever
\* their name
assign_tensorsLogicalLast(h, x, x_out, names, tensors) ==
    The({AssignUndeclared(h1, x, x_out, <<>>) : h1 \in {AssignNamed(h, x_out, names, tensors, 1)}})

assign_tensors(h, x, x_out, names, tensors) ==
    The({AssignNamed(h1, x_out, names, tensors, 1) : h1 \in {AssignUndeclared(h, x, x_out, names)}})

\* assign_adjoints(x, names, adj_tensors): write each adjoint into .grad
RECURSIVE assign_adjoints(_, _, _, _, _)
assign_adjoints(h, x, names, adj, i) ==
    IF i > Min(Len(names), Len(adj)) THEN h
    ELSE The({assign_adjoints(h1, x, names, adj, i + 1) : h1 \in {SetG(h, x, names[i], adj[i])}})


\* --------------------------------------------------- UpdateFunction.forward
\* The arguments of one call (a): update_params (tape, the integrator's
\* physics update phys, use_graph_capture, synchronize), states, control,
\* states_bwd, control_bwd, the three names arguments and *tensors.
\* a.bound is FALSE when the call passes fewer positional arguments than
\* forward requires.
state_tensors(a) == Slice(a.tensors, 0, NLen(a.snames))
model_tensors(a) == Slice(a.tensors, NLen(a.snames), NLen(a.snames) + NLen(a.mnames))
control_tensors(a) ==
    Slice(a.tensors, NLen(a.snames) + NLen(a.mnames),
          NLen(a.snames) + NLen(a.mnames) + NLen(a.cnames))
mesh_tensors(a) ==
    Slice(a.tensors, NLen(a.snames) + NLen(a.mnames) + NLen(a.cnames), Len(a.tensors))

\* variant: the capture runs the physics update on the logical buffers
ShadowLaunchOnLogical(a) == Launch(a.sin, a.midsB, a.sout, a.ctl)

ShadowLaunch(a) == Launch(a.sinB, a.midsB, a.soutB, a.ctlB)
LogicalLaunch(a) == Launch(a.sin, a.mids, a.sout, a.ctl)

\* getattr(x, name) fails for a declared name paired with a tensor that x lacks
MissingAttr(h, x, names, tensors) ==
    \E i \in 1 .. Min(Len(names), Len(tensors)) : names[i] \notin DOMAIN h[x].a

\* the kernels a capture of one physics update records
GraphOps(kind, L) == IF kind = "noop" \/ L.nsub = 0 THEN <<>> ELSE <<L>>

FwdBind(a, m) ==
    IF a.bound THEN m ELSE Raise(m, "TypeError", "control_tensors_names")

FwdSync(a, m) ==
    IF Ok(m) /\ a.synchronize THEN Log(m, "synchronize_device", "") ELSE m

\* variant: a call without a tape uses a tape an earlier call made, if any
FwdTapeShared(a, m) ==
    IF ~Ok(m) THEN m
    ELSE IF a.tape = NoTape /\ DOMAIN m.tapes = {}
         THEN Log([m EXCEPT !.tapes = (m.ntape :> EmptyTape) @@ @, !.tape = m.ntape,
                            !.ntape = @ + 1], "Tape", "")
         ELSE [m EXCEPT !.tape = IF a.tape = NoTape
                                 THEN CHOOSE t \in DOMAIN m.tapes : TRUE ELSE a.tape]

\* `if tape is None: tape = wp.Tape()`
FwdTape(a, m) ==
    IF ~Ok(m) THEN m
    ELSE IF a.tape = NoTape
         THEN Log([m EXCEPT !.tapes = (m.ntape :> EmptyTape) @@ @, !.tape = m.ntape,
                            !.ntape = @ + 1], "Tape", "")
         ELSE [m EXCEPT !.tape = a.tape]

\* tape.backward() while a graph is captured: tape.gradients is filled and the
\* adjoint kernels are recorded, none is executed
BwdOps(tp, fail) ==
    IF fail.at = "bwd"
    THEN [j \in DOMAIN tp.launches |->
             [tp.launches[j] EXCEPT !.lo = tp.launches[j].nsub - fail.k + 1]]
    ELSE tp.launches

FwdCaptureBwd(a, m, fail) ==
    LET m1 == Log(Log(m, "capture_begin", "bwd_update_graph"), "tape_backward", "capture")
        tp == m1.tapes[m1.tape]
        ops == BwdOps(tp, fail)
        tp2 == [tp EXCEPT !.gradients = @ \cup UNION {Touched(a.phys, ops[j]) : j \in DOMAIN ops}]
        m2 == [m1 EXCEPT !.tapes[m1.tape] = tp2,
                         !.bwd = [set |-> TRUE, partial |-> fail.at = "bwd", ops |-> ops]]
        m3 == Log(m2, "capture_end", "bwd_update_graph")
    IN  IF fail.at = "bwd" THEN Raise(m3, "PhysicsError", "tape.backward") ELSE m3

FwdCaptureFwd(a, m, fail) ==
    LET L0 == ShadowLaunch(a)
        L == IF fail.at = "fwd" THEN [L0 EXCEPT !.nsub = fail.k] ELSE L0
        m1 == Log(Log(m, "capture_begin", "update_graph"), "sim_update",
                  IF L.sin = a.sinB /\ L.ctl = a.ctlB THEN "shadow" ELSE "logical")
        m2 == [m1 EXCEPT !.tapes[m1.tape] = TapeRecord(a.phys, @, L),
                         !.upd = [set |-> TRUE, partial |-> fail.at = "fwd",
                                  ops |-> GraphOps(a.phys, L)]]
        m3 == Log(m2, "capture_end", "update_graph")
    IN  IF fail.at = "fwd" THEN Raise(m3, "PhysicsError", "sim_update") ELSE m3

\* variant: every forward call captures anew
FwdCaptureEveryCall(a, m, fail) ==
    IF ~Ok(m) \/ ~a.use_graph_capture THEN m
    ELSE The({IF Ok(m1) THEN FwdCaptureBwd(a, m1, fail) ELSE m1 :
                 m1 \in {FwdCaptureFwd(a, m, fail)}})

FwdCapture(a, m, fail) ==
    IF ~Ok(m) \/ ~a.use_graph_capture \/ m.upd.set THEN m
    ELSE IF m.bwd.set THEN Raise(m, "AssertionError", "bwd_update_graph")
    ELSE The({IF Ok(m1) THEN FwdCaptureBwd(a, m1, fail) ELSE m1 :
                 m1 \in {FwdCaptureFwd(a, m, fail)}})

RECURSIVE AssignMesh(_, _, _)
AssignMesh(h, mts, i) ==
    IF i > Min(Len(MeshSeq), Len(mts)) THEN h
    ELSE The({AssignMesh(h1, mts, i + 1) : h1 \in {SetA(h, MeshSeq[i], "points", TVal(h, mts[i]))}})

\* the copy of the inputs into the buffers the graph runs on: state, control,
\* model parameters, mesh points, in this order
\* variant: state_in is copied into the shadow state_in only by the call that captured
PushStateWhenCaptured(a, m) ==
    IF ~Ok(m) THEN m
    ELSE IF \E i \in DOMAIN m.log : m.log[i].ev = "capture_begin"
    THEN Log([m EXCEPT !.h = assign_tensors(m.h, a.sin, a.sinB, a.snames.names,
                                            state_tensors(a))], "assign_tensors", "state")
    ELSE Log(m, "assign_tensors", "state")

PushState(a, m) ==
    IF ~Ok(m) THEN m
    ELSE IF a.snames.tensor \/ MissingAttr(m.h, a.sinB, a.snames.names, state_tensors(a))
    THEN Raise(m, "RuntimeError", "state_tensors_names")
    ELSE Log([m EXCEPT !.h = assign_tensors(m.h, a.sin, a.sinB, a.snames.names,
                                            state_tensors(a))], "assign_tensors", "state")

PushControl(a, m) ==
    IF ~Ok(m) THEN m
    ELSE IF a.cnames.tensor \/ MissingAttr(m.h, a.ctlB, a.cnames.names, control_tensors(a))
    THEN Raise(m, "RuntimeError", "control_tensors_names")
    ELSE Log([m EXCEPT !.h = assign_tensors(m.h, a.ctl, a.ctlB, a.cnames.names,
                                            control_tensors(a))], "assign_tensors", "control")

PushModel(a, m) ==
    IF ~Ok(m) THEN m
    ELSE IF a.mnames.tensor \/ MissingAttr(m.h, ModelId, a.mnames.names, model_tensors(a))
    THEN Raise(m, "AttributeError", "model_tensors_names")
    ELSE Log([m EXCEPT !.h = AssignNamed(m.h, ModelId, a.mnames.names, model_tensors(a), 1)],
             "assign", "model")

PushMesh(a, m) ==
    IF ~Ok(m) THEN m
    ELSE IF Len(mesh_tensors(a)) < Len(MeshSeq)
    THEN Raise([m EXCEPT !.h = AssignMesh(m.h, mesh_tensors(a), 1)], "IndexError", "mesh_tensors")
    ELSE Log([m EXCEPT !.h = AssignMesh(m.h, mesh_tensors(a), 1)], "assign", "mesh")

PushInputs(a, m) ==
    The({PushMesh(a, m3) : m3 \in {PushModel(a, m2) : m2 \in {PushControl(a, m1) :
            m1 \in {PushState(a, m)}}}})

\* the contents of the buffers the graph runs on (values only)
ShadowSnap(a, h) ==
    [o \in ({a.sinB, a.soutB, a.ctlB, ModelId, MeshId} \cup Range(a.midsB)) |-> h[o].a]

\* variant: the forward graph is launched twice
LaunchUpdateGraphTwice(a, m) ==
    IF ~Ok(m) THEN m
    ELSE IF ~m.upd.set THEN Raise(m, "RuntimeError", "update_graph")
    ELSE Log(Log([m EXCEPT !.h = FwdLaunches(a.phys, m.h, m.upd.ops, 1)],
                 "capture_launch", "update_graph"), "capture_launch", "update_graph")

\* wp.capture_launch(integrator.update_graph)
LaunchUpdateGraph(a, m) ==
    IF ~Ok(m) THEN m
    ELSE IF ~m.upd.set THEN Raise(m, "RuntimeError", "update_graph")
    ELSE Log([m EXCEPT !.h = FwdLaunches(a.phys, m.h, m.upd.ops, 1),
                       !.pushed = ShadowSnap(a, m.h)],
             "capture_launch", "update_graph")

\* assign_tensors(state_out_bwd, state_out, [], []): write to state_out
CopyOut(a, m) ==
    IF ~Ok(m) THEN m
    ELSE Log([m EXCEPT !.h = assign_tensors(m.h, a.soutB, a.sout, <<>>, <<>>),
                       !.snap = ShadowSnap(a, m.h)], "assign_tensors", "state_out")

FwdGraph(a, m) ==
    IF ~Ok(m) \/ ~a.use_graph_capture THEN m
    ELSE The({CopyOut(a, m2) : m2 \in {LaunchUpdateGraph(a, m1) : m1 \in {PushInputs(a, m)}}})

FwdEager(a, m) ==
    IF ~Ok(m) \/ a.use_graph_capture THEN m
    ELSE Log([m EXCEPT !.h = SimUpdate(a.phys, m.h, LogicalLaunch(a)),
                       !.tapes[m.tape] = TapeRecord(a.phys, @, LogicalLaunch(a))],
             "sim_update", "logical")

\* variant: wp.to_torch(array) without the clone
OutTensorView(a, h, o, n) == View(o, n)

\* wp.to_torch(array), cloned only under graph capture
OutTensor(a, h, o, n) == IF a.use_graph_capture THEN Clone(h, View(o, n)) ELSE View(o, n)

FwdOutputs(a, m) ==
    IF ~Ok(m) THEN m
    ELSE IF a.snames.tensor \/ \E i \in DOMAIN a.snames.names : a.snames.names[i] \notin DOMAIN m.h[a.sout].a
    THEN Raise(m, "AttributeError", "state_tensors_names")
    ELSE IF a.mnames.tensor \/ \E i \in DOMAIN a.mnames.names : a.mnames.names[i] \notin DOMAIN m.h[ModelId].a
    THEN Raise(m, "AttributeError", "model_tensors_names")
    ELSE IF a.cnames.tensor \/ \E i \in DOMAIN a.cnames.names : a.cnames.names[i] \notin DOMAIN m.h[a.ctl].a
    THEN Raise(m, "TypeError", "control_tensors_names")
    ELSE Log([m EXCEPT !.outs =
                 [i \in DOMAIN a.snames.names |-> OutTensor(a, m.h, a.sout, a.snames.names[i])]
                 \o [i \in DOMAIN a.mnames.names |-> OutTensor(a, m.h, ModelId, a.mnames.names[i])]
                 \o [i \in DOMAIN a.cnames.names |-> OutTensor(a, m.h, a.ctl, a.cnames.names[i])]
                 \o [i \in DOMAIN mesh_tensors(a) |-> Clone(m.h, mesh_tensors(a)[i])]],
             "outputs", "")

\* variant: the outputs are read without the second synchronization
forwardSyncOnce(a, m, fail) ==
    The({FwdOutputs(a, m6) : m6 \in {FwdEager(a, m5) :
         m5 \in {FwdGraph(a, m4) : m4 \in {FwdCapture(a, m3, fail) : m3 \in {FwdTape(a, m2) :
         m2 \in {FwdSync(a, m1) : m1 \in {FwdBind(a, m)}}}}}}})

\* forward(ctx, ...): the memory after the call; m.outs are the outputs and
\* m.err the exception it raised, if any
forward(a, m, fail) ==
    The({FwdOutputs(a, m7) : m7 \in {FwdSync(a, m6) : m6 \in {FwdEager(a, m5) :
         m5 \in {FwdGraph(a, m4) : m4 \in {FwdCapture(a, m3, fail) : m3 \in {FwdTape(a, m2) :
         m2 \in {FwdSync(a, m1) : m1 \in {FwdBind(a, m)}}}}}}}})


\* -------------------------------------------------- UpdateFunction.backward
\* c is the ctx saved by the paired forward (its arguments, with the tape it
\* used); adj are the output adjoints, one value per tensor.
adj_state_tensors(c, adj) == Slice(adj, 0, NLen(c.snames))
adj_model_tensors(c, adj) == Slice(adj, NLen(c.snames), NLen(c.snames) + NLen(c.mnames))
adj_control_tensors(c, adj) ==
    Slice(adj, NLen(c.snames) + NLen(c.mnames),
          NLen(c.snames) + NLen(c.mnames) + NLen(c.cnames))
adj_mesh_tensors(c, adj) ==
    Slice(adj, NLen(c.snames) + NLen(c.mnames) + NLen(c.cnames), Len(adj))

RECURSIVE AssignMeshAdj(_, _, _)
AssignMeshAdj(h, madj, i) ==
    IF i > Min(Len(MeshSeq), Len(madj)) THEN h
    ELSE The({AssignMeshAdj(h1, madj, i + 1) : h1 \in {SetG(h, MeshSeq[i], "points", madj[i])}})

\* state_out after `state_in, state_out = state_in_bwd, state_out_bwd`
BwdStateOut(c) == IF c.use_graph_capture THEN c.soutB ELSE c.sout

\* the adjoint slots of the arrays the outputs of forward were read from (by
\* name, on the buffers the reverse pass runs on), in the order of the outputs
OutAdjSlots(c, h) ==
    [i \in DOMAIN c.snames.names |-> h[BwdStateOut(c)].g[c.snames.names[i]]]
    \o [i \in DOMAIN c.mnames.names |-> h[ModelId].g[c.mnames.names[i]]]
    \o [i \in DOMAIN c.cnames.names |->
           h[IF c.use_graph_capture THEN c.ctlB ELSE c.ctl].g[c.cnames.names[i]]]
    \o [i \in DOMAIN MeshSeq |-> h[MeshSeq[i]].g.points]

\* the output adjoints written into the adjoint slots, graph-capture mode
BwdAssignAdjGraph(c, adj, m) ==
    IF ~Ok(m) THEN m
    ELSE LET h1 == assign_adjoints(m.h, c.soutB, c.snames.names, adj_state_tensors(c, adj), 1)
             h2 == assign_adjoints(h1, ModelId, c.mnames.names, adj_model_tensors(c, adj), 1)
             h3 == assign_adjoints(h2, c.ctlB, c.cnames.names, adj_control_tensors(c, adj), 1)
             h4 == AssignMeshAdj(h3, adj_mesh_tensors(c, adj), 1)
         IN  The({IF Len(adj_mesh_tensors(c, adj)) < Len(MeshSeq)
                  THEN Raise(m1, "IndexError", "adj_mesh_tensors") ELSE m1 :
                  m1 \in {Log([m EXCEPT !.h = h4, !.snap = ShadowSnap(c, m.h),
                                         !.assigned = OutAdjSlots(c, h4)],
                              "assign_adjoints", "shadow")}})

\* wp.capture_launch(integrator.bwd_update_graph); assert len(tape.gradients) > 0
LaunchBwdGraph(c, m) ==
    IF ~Ok(m) THEN m
    ELSE IF ~m.bwd.set THEN Raise(m, "RuntimeError", "bwd_update_graph")
    ELSE The({IF m1.tapes[c.tape].gradients = {}
              THEN Raise(m1, "AssertionError", "tape.gradients") ELSE m1 :
              m1 \in {Log([m EXCEPT !.h = AdjLaunches(c.phys, m.h, m.bwd.ops, Len(m.bwd.ops))],
                          "capture_launch", "bwd_update_graph")}})

\* variant: backward does not restore the saved inputs nor replay the forward graph
BwdGraphNoReplay(c, adj, m) ==
    IF ~Ok(m) \/ ~c.use_graph_capture THEN m
    ELSE The({LaunchBwdGraph(c, m3) : m3 \in {BwdAssignAdjGraph(c, adj, m)}})

BwdGraph(c, adj, m) ==
    IF ~Ok(m) \/ ~c.use_graph_capture THEN m
    ELSE The({LaunchBwdGraph(c, m3) : m3 \in {BwdAssignAdjGraph(c, adj, m2) :
              m2 \in {LaunchUpdateGraph(c, m1) : m1 \in {PushInputs(c, m)}}}})

\* eager mode: adjoints of state_out and control, then tape.backward()
BwdEager(c, adj, m) ==
    IF ~Ok(m) \/ c.use_graph_capture THEN m
    ELSE LET h1 == assign_adjoints(m.h, c.sout, c.snames.names, adj_state_tensors(c, adj), 1)
             tp == m.tapes[c.tape]
         IN  The({Log([m1 EXCEPT !.h = AdjLaunches(c.phys, m1.h, tp.launches, Len(tp.launches)),
                                 !.tapes[c.tape].gradients = TapeGradients(c.phys, tp)],
                      "tape_backward", "") :
                  m1 \in {Log(The({[m EXCEPT !.h = h2, !.assigned = OutAdjSlots(c, h2)] :
                                   h2 \in {assign_adjoints(h1, c.ctl, c.cnames.names,
                                                           adj_control_tensors(c, adj), 1)}}),
                              "assign_adjoints", "logical")}})

\* state_in, control after `state_in, state_out = state_in_bwd, state_out_bwd`
BwdStateIn(c) == IF c.use_graph_capture THEN c.sinB ELSE c.sin
BwdControl(c) == IF c.use_graph_capture THEN c.ctlB ELSE c.ctl

\* variant: the control gradients are looked up before the model gradients
GradLookupsControlFirst(c) ==
    [i \in DOMAIN c.snames.names |-> Ref(BwdStateIn(c), c.snames.names[i])]
    \o [i \in DOMAIN c.cnames.names |-> Ref(BwdControl(c), c.cnames.names[i])]
    \o [i \in DOMAIN c.mnames.names |-> Ref(ModelId, c.mnames.names[i])]

\* the arrays whose gradient backward looks up in tape.gradients, in order
GradLookups(c) ==
    [i \in DOMAIN c.snames.names |-> Ref(BwdStateIn(c), c.snames.names[i])]
    \o [i \in DOMAIN c.mnames.names |-> Ref(ModelId, c.mnames.names[i])]
    \o [i \in DOMAIN c.cnames.names |-> Ref(BwdControl(c), c.cnames.names[i])]

\* the first lookup that raises KeyError (0 when none does)
FirstMissing(lk, grads) ==
    IF \E i \in DOMAIN lk : lk[i] \notin grads
    THEN CHOOSE i \in DOMAIN lk : lk[i] \notin grads /\ \A j \in 1 .. (i - 1) : lk[j] \in grads
    ELSE 0

\* variant: a missing gradient is returned as zero
BwdGatherZeros(c, m) ==
    IF ~Ok(m) THEN m
    ELSE LET lk == GradLookups(c)
         IN  Log([m EXCEPT !.adj =
                     [i \in DOMAIN lk |-> IF lk[i] \in m.tapes[c.tape].gradients
                                          THEN m.h[lk[i][1]].g[lk[i][2]] ELSE 0]
                     \o [i \in DOMAIN MeshSeq |-> m.h[MeshSeq[i]].g.points]],
                 "read_adjoints", "")

BwdGather(c, m) ==
    IF ~Ok(m) THEN m
    ELSE LET lk == GradLookups(c)
             miss == FirstMissing(lk, m.tapes[c.tape].gradients)
         IN  IF miss # 0
             THEN Raise(Log(m, "print_missing_gradient", lk[miss][2]), "KeyError", lk[miss][2])
             ELSE Log([m EXCEPT !.adj =
                          [i \in DOMAIN lk |-> m.h[lk[i][1]].g[lk[i][2]]]
                          \o [i \in DOMAIN MeshSeq |-> m.h[MeshSeq[i]].g.points]],
                      "read_adjoints", "")

\* variant: the tape is not zeroed
BwdZeroSkipped(c, m) ==
    IF ~Ok(m) THEN m
    ELSE Log(m, "tape_zero", "")

BwdZero(c, m) ==
    IF ~Ok(m) THEN m
    ELSE Log([m EXCEPT !.h = TapeZero(m.h, m.tapes[c.tape])], "tape_zero", "")

\* backward up to the gathering of the input adjoints: output adjoints
\* written, reverse pass run
BwdReverse(c, adj, m) ==
    The({FwdSync(c, m3) : m3 \in {BwdEager(c, adj, m2) : m2 \in {BwdGraph(c, adj, m1) :
         m1 \in {FwdSync(c, m)}}}})

\* the adjoint slots backward returns, as they stand in memory m
AdjSlots(c, m) ==
    [i \in DOMAIN GradLookups(c) |-> m.h[GradLookups(c)[i][1]].g[GradLookups(c)[i][2]]]
    \o [i \in DOMAIN MeshSeq |-> m.h[MeshSeq[i]].g.points]

\* variant: the tape is zeroed before the input adjoints are read
backwardZeroFirst(c, adj, m) ==
    The({BwdGather(c, m5) : m5 \in {BwdZero(c, m4) : m4 \in {BwdReverse(c, adj, m)}}})

\* the adjoint of every array in tape.gradients, as it stands in memory m
TapeAdjoints(m, t) ==
    {<<r, m.h[r[1]].g[r[2]]>> : r \in {x \in m.tapes[t].gradients : x[1] \in DOMAIN m.h}}

\* variant: tape.zero() runs in a finally clause, also when a lookup raised
backwardZeroAlways(c, adj, m) ==
    The({IF m5.err = "KeyError"
         THEN [m5 EXCEPT !.h = TapeZero(m5.h, m5.tapes[c.tape])]
         ELSE BwdZero(c, m5) : m5 \in {BwdGather(c, m4) : m4 \in {BwdReverse(c, adj, m)}}})

\* backward(ctx, *adj_tensors): the memory after the call; m.adj are the
\* input adjoints it returns and m.err the exception it raised, if any
backward(c, adj, m) ==
    The({BwdZero(c, m5) : m5 \in {BwdGather(c, m4) : m4 \in {BwdReverse(c, adj, m)}}})


\* ------------------------------------------------------------------ WarpEnv
VARIABLES
    cfg,               \* constructor arguments and class attributes of the environment
    heap, nextId,      \* the State/Control/Model/Mesh objects and the next fresh identity
    tapes, nextTape,   \* the wp.Tape objects
    update_graph,      \* integrator.update_graph
    bwd_update_graph,  \* integrator.bwd_update_graph
    env,               \* the fields of the WarpEnv instance
    ctxs,              \* the autograd nodes (ctx) whose backward has not run yet
    last,              \* the last call: its arguments, log, result and exception
    nsteps, nresets,   \* calls made so far (bounded by MaxSteps, MaxResets)
    nedits             \* calls of clear_grad and state.assign so far (bounded by MaxEdits)

vars == <<cfg, heap, nextId, tapes, nextTape, update_graph, bwd_update_graph, env, ctxs,
          last, nsteps, nresets, nedits>>

\* calls of reset, step, clear_grad and state.assign made so far
Calls == nresets + nsteps + nedits

\* the declared names (class attributes state_tensors_names, control_tensors_names,
\* and the model names a caller of forward declares)
DeclaredNames(n) ==
    CASE n = "full" -> [s |-> <<"q">>, m |-> <<"p">>, c |-> <<"act">>]
      [] n = "state" -> [s |-> <<"q">>, m |-> <<>>, c |-> <<>>]
      [] OTHER -> [s |-> <<>>, m |-> <<>>, c |-> <<>>]

requires_grad == ~cfg.no_grad

\* WarpEnv.__init__: self.use_graph_capture, and the exception the constructor
\* raises for its arguments (it raises none)
Construct(c) ==
    [use_graph_capture |-> c.use_graph_capture /\ c.device = "cuda", err |-> ""]
use_graph_capture == Construct(cfg).use_graph_capture

\* self.state_tensors_names / self.control_tensors_names as init_sim leaves
\* them: the class attributes, or [] with graph capture and no gradients
state_tensors_names ==
    IF requires_grad \/ ~use_graph_capture THEN DeclaredNames(cfg.names).s ELSE <<>>
control_tensors_names ==
    IF requires_grad \/ ~use_graph_capture THEN DeclaredNames(cfg.names).c ELSE <<>>
model_tensors_names == IF requires_grad THEN DeclaredNames(cfg.names).m ELSE <<>>

Machine ==
    [h |-> heap, nid |-> nextId, tapes |-> tapes, ntape |-> nextTape, tape |-> NoTape,
     upd |-> update_graph, bwd |-> bwd_update_graph, log |-> <<>>, err |-> "", errname |-> "",
     outs |-> <<>>, adj |-> <<>>, snap |-> <<>>, pushed |-> <<>>, assigned |-> <<>>]

NoCall ==
    [tape |-> NoTape, phys |-> "noop", use_graph_capture |-> FALSE, synchronize |-> FALSE,
     sin |-> 0, mids |-> <<>>, sout |-> 0, ctl |-> 0,
     sinB |-> 0, midsB |-> <<>>, soutB |-> 0, ctlB |-> 0,
     snames |-> Names(<<>>), mnames |-> Names(<<>>), cnames |-> Names(<<>>),
     tensors |-> <<>>, bound |-> TRUE, snap |-> <<>>]

NoRef == [ok |-> FALSE, vals |-> <<>>]

\* ------------------------------------------- post-processing of adjoints
\* An entry of an adjoint tensor: NaN, +inf, -inf or a finite number
NaN == [k |-> "nan", v |-> 0]
PosInf == [k |-> "posinf", v |-> 0]
NegInf == [k |-> "neginf", v |-> 0]
Fin(v) == [k |-> "fin", v |-> v]
\* an option that is None or a number
None == [none |-> TRUE, v |-> 0]
Some(v) == [none |-> FALSE, v |-> v]

\* rescale_grad, clip_grad, zero_nans as backward sets them
BackwardPolicy == [rescale_grad |-> None, clip_grad |-> None, zero_nans |-> FALSE]
NoGrad == [in |-> NaN, out |-> NaN]

\* adj_tensor /= rescale_grad
Rescale(x, r) == IF x.k = "fin" THEN Fin(x.v \div r) ELSE x
\* torch.nan_to_num(x, nan=n, posinf=p, neginf=q)
nan_to_num(x, n, p, q) ==
    CASE x.k = "nan" -> Fin(n)
      [] x.k = "posinf" -> Fin(p)
      [] x.k = "neginf" -> Fin(q)
      [] OTHER -> x
\* torch.clamp(x, lo, hi)
clamp(x, lo, hi) ==
    CASE x.k = "nan" -> x
      [] x.k = "posinf" -> Fin(hi)
      [] x.k = "neginf" -> Fin(lo)
      [] OTHER -> Fin(IF x.v < lo THEN lo ELSE IF x.v > hi THEN hi ELSE x.v)

\* what backward does to an entry of the adjoint of a state, model or control
\* tensor, or of a mesh tensor, before it returns it
PostProcess(x, slot, pol) ==
    LET x1 == IF slot # "mesh" /\ ~pol.rescale_grad.none
              THEN Rescale(x, pol.rescale_grad.v) ELSE x
        x2 == IF slot # "mesh" /\ ~pol.clip_grad.none
              THEN clamp(nan_to_num(x1, 0, 0 - pol.clip_grad.v, pol.clip_grad.v),
                         0 - pol.clip_grad.v, pol.clip_grad.v)
              ELSE x1
    IN  IF pol.zero_nans THEN nan_to_num(x2, 0, 0, 0) ELSE x2

\* the entries and policies explored
AdjEntries ==
    {NaN, PosInf, NegInf} \cup {Fin(v) : v \in {w \in (0 - MaxAdj) .. MaxAdj : w % RescaleBy = 0}}
Policies ==
    [rescale_grad : {None, Some(RescaleBy)}, clip_grad : {None} \cup {Some(c) : c \in 1 .. MaxClip},
     zero_nans : BOOLEAN]
AdjSlotKinds == {"state", "model", "control", "mesh"}

\* extras["obs_before_reset"]: None, or the observation it holds
NoExtras == [obs_before_reset |-> [none |-> TRUE, obs |-> 0]]

NoLast ==
    [op |-> "none", err |-> "", errname |-> "", log |-> <<>>, outs |-> <<>>, adj |-> <<>>,
     call |-> NoCall, snap |-> <<>>, matched |-> FALSE, captured |-> FALSE,
     ref_eager |-> NoRef, ref_scrub |-> NoRef, prev_sout |-> 0, prev_fail |-> NoFail,
     fail |-> NoFail, had_graphs |-> FALSE, pre |-> <<>>, grads |-> {},
     sh1 |-> <<>>, invals |-> <<>>, slots |-> <<>>, outadj |-> <<>>, tape_in |-> NoTape, rev |-> {}, synced |-> FALSE, decl |-> <<>>,
     env_ids |-> {}, clear_grad |-> "None", actions_in |-> <<>>, progress_in |-> <<>>,
     pushed |-> <<>>, logical |-> <<>>, assigned |-> <<>>,
     via |-> "", slog |-> <<>>, obs |-> 0, extras |-> NoExtras, obs_physics |-> 0,
     policy |-> BackwardPolicy, grad |-> NoGrad, slot |-> "",
     ref_zero |-> [ok |-> FALSE, adj |-> <<>>]]

NoEnv ==
    [initialized |-> FALSE, state_0 |-> 0, state_1 |-> 0, control_0 |-> 0,
     state_0_bwd |-> 0, state_1_bwd |-> 0, states_mid_bwd |-> <<>>, control_0_bwd |-> 0,
     tape |-> NoTape, has_tensors |-> FALSE, state_tensors |-> <<>>, control_tensors |-> <<>>,
     last_sout |-> 0, last_fail |-> NoFail, returned |-> <<>>,
     progress_buf |-> [i \in Envs |-> 0], reset_buf |-> [i \in Envs |-> FALSE],
     actions |-> [i \in Envs |-> 0], obs_buf |-> 0, extras |-> NoExtras,
     inits |-> 0, after_init |-> [tape |-> NoTape, has_tensors |-> FALSE]]

\* the constructor arguments explored: every physics update and declaration
\* of names without synchronize, and synchronize on and off for fewer of them
Configs ==
    {c \in [use_graph_capture : BOOLEAN, no_grad : BOOLEAN, synchronize : {FALSE},
            phys : {"dyn", "free", "noop"}, names : {"full", "state", "none"},
            driver : {"source", "signature"}, device : {"cuda"},
            episode_length : {LongEpisode}] :
        c.use_graph_capture \/ ~c.no_grad}
SyncConfigs ==
    {c \in [use_graph_capture : BOOLEAN, no_grad : BOOLEAN, synchronize : BOOLEAN,
            phys : {"dyn", "free"}, names : {"full", "state"},
            driver : {"source", "signature"}, device : {"cuda"},
            episode_length : {LongEpisode}] :
        c.use_graph_capture \/ ~c.no_grad}
\* short episodes, devices without graph capture, the mode without gradients
\* and without capture, and callers that pass one tensor fewer or more than
\* the declared names require
\* one environment, for the post-processing of adjoints taken alone
ClipConfigs ==
    {c \in Configs : /\ c.use_graph_capture /\ ~c.no_grad /\ c.phys = "dyn"
                     /\ c.names = "full" /\ c.driver = "signature"}
\* several environments with short episodes, reset some or all at a time
IdsConfigs ==
    [use_graph_capture : BOOLEAN, no_grad : BOOLEAN, synchronize : {FALSE},
     phys : {"dyn"}, names : {"full"}, driver : {"signature"}, device : {"cuda"},
     episode_length : ShortEpisode .. (ShortEpisode + 1)]
EnvConfigs ==
    [use_graph_capture : BOOLEAN, no_grad : BOOLEAN, synchronize : {FALSE},
     phys : {"dyn", "noop"}, names : {"full"},
     driver : {"source", "signature", "fewer", "more"}, device : {"cuda", "cpu"},
     episode_length : ShortEpisode .. (ShortEpisode + 1)]

InitWith(C) ==
    /\ cfg \in C
    /\ heap = (ModelId :> NewModel) @@ (MeshId :> NewMesh)
    /\ nextId = FirstId
    /\ tapes = <<>>
    /\ nextTape = 1
    /\ update_graph = NoGraph
    /\ bwd_update_graph = NoGraph
    /\ env = NoEnv
    /\ ctxs = <<>>
    /\ last = NoLast
    /\ nsteps = 0
    /\ nresets = 0
    /\ nedits = 0

Init == InitWith(Configs)
InitSync == InitWith(SyncConfigs)
InitEnv == InitWith(EnvConfigs)
InitClip == InitWith(ClipConfigs)
InitIds == InitWith(IdsConfigs)

\* objects and tapes that are still referenced
TensorObjs(ts) == {ts[i].obj : i \in {j \in DOMAIN ts : ~ts[j].own}}
CallObjs(c) ==
    {c.sin, c.sout, c.ctl, c.sinB, c.soutB, c.ctlB} \cup Range(c.mids) \cup Range(c.midsB)
    \cup TensorObjs(c.tensors)
Live(e, cs, outs) ==
    {ModelId, MeshId, e.state_0, e.state_1, e.control_0, e.state_0_bwd, e.state_1_bwd,
     e.control_0_bwd} \cup Range(e.states_mid_bwd)
    \cup TensorObjs(e.state_tensors) \cup TensorObjs(e.control_tensors) \cup TensorObjs(outs)
    \cup TensorObjs([i \in DOMAIN e.returned |-> e.returned[i].t])
    \cup UNION {CallObjs(cs[i]) : i \in DOMAIN cs}
Collect(h, e, cs, outs) == [o \in (DOMAIN h \cap Live(e, cs, outs)) |-> h[o]]
CollectTapes(t, e, cs) == [i \in (DOMAIN t \cap ({e.tape} \cup {cs[j].tape : j \in DOMAIN cs})) |-> t[i]]

\* the shadow objects of the environment with their contents and adjoints
ShadowFull(e, h) ==
    [o \in (({e.state_0_bwd, e.state_1_bwd, e.control_0_bwd} \cup Range(e.states_mid_bwd))
            \cap DOMAIN h) |-> h[o]]

\* init_sim(): the buffers, the persistent tape and the graph handles
init_sim(m) ==
    LET s0 == m.nid
        s1 == m.nid + 1
        c0 == m.nid + 2
        h1 == (s0 :> NewState) @@ (s1 :> ZeroState) @@ (c0 :> NewControl) @@ m.h
        e1 == [NoEnv EXCEPT !.state_0 = s0, !.state_1 = s1, !.control_0 = c0,
                            !.has_tensors = requires_grad \/ use_graph_capture,
                            !.state_tensors = [i \in DOMAIN state_tensors_names |->
                                                  View(s0, state_tensors_names[i])],
                            !.control_tensors = [i \in DOMAIN control_tensors_names |->
                                                    View(c0, control_tensors_names[i])]]
        b0 == m.nid + 3
        b1 == m.nid + 4
        cb == m.nid + 5
        mb == [i \in 1 .. (SimSubsteps - 1) |-> m.nid + 5 + i]
        h2 == (b0 :> ZeroState) @@ (b1 :> ZeroState) @@ (cb :> NewControl)
              @@ [o \in Range(mb) |-> ZeroState] @@ h1
    IN  IF use_graph_capture
        THEN [m |-> [m EXCEPT !.h = h2, !.nid = m.nid + 5 + SimSubsteps,
                              !.tapes = (m.ntape :> EmptyTape) @@ @, !.ntape = @ + 1,
                              !.upd = NoGraph, !.bwd = NoGraph],
              e |-> [e1 EXCEPT !.tape = m.ntape, !.state_0_bwd = b0, !.state_1_bwd = b1,
                               !.states_mid_bwd = mb, !.control_0_bwd = cb]]
        ELSE [m |-> [m EXCEPT !.h = h1, !.nid = m.nid + 3], e |-> e1]

\* reset_idx(env_ids): `assert len(env_ids) == self.num_envs`, then new state_0
\* and control_0, and views of them as tensors
reset_idx(m, e, env_ids) ==
    LET s0 == m.nid
        c0 == m.nid + 1
    IN  IF Cardinality(env_ids) # NumEnvs
        THEN [m |-> Raise(m, "AssertionError", "env_ids"), e |-> e]
        ELSE
        [m |-> [m EXCEPT !.h = (s0 :> NewState) @@ (c0 :> NewControl) @@ @, !.nid = @ + 2],
         e |-> [e EXCEPT !.state_0 = s0, !.control_0 = c0, !.has_tensors = TRUE,
                         !.state_tensors = [i \in DOMAIN state_tensors_names |->
                                               View(s0, state_tensors_names[i])],
                         !.control_tensors = [i \in DOMAIN control_tensors_names |->
                                                 View(c0, control_tensors_names[i])]]]

\* init(): init_sim() and the allocation of the buffers
init(m, e) ==
    The({[m |-> r.m,
          e |-> [r.e EXCEPT !.inits = e.inits + 1,
                            !.after_init = [tape |-> r.e.tape, has_tensors |-> r.e.has_tensors],
                            !.obs_buf = 0, !.reset_buf = [i \in Envs |-> TRUE],
                            !.progress_buf = [i \in Envs |-> 0],
                            !.actions = [i \in Envs |-> 0],
                            !.extras = NoExtras]] : r \in {init_sim(m)}})

\* variant: every reset runs init()
init_always(m, e) ==
    The({[m |-> r.m, e |-> [r.e EXCEPT !.initialized = TRUE]] : r \in {init(m, e)}})

\* `if not self.initialized: self.init(); self.initialized = True`
init_once(m, e) ==
    IF e.initialized THEN [m |-> m, e |-> e]
    ELSE The({[m |-> r.m, e |-> [r.e EXCEPT !.initialized = TRUE]] : r \in {init(m, e)}})

\* self.state.<name>: the declared tensor of that name, or a view of state_0
StateGet(h, e, name) ==
    IF e.has_tensors /\ name \in Range(state_tensors_names)
    THEN TVal(h, e.state_tensors[CHOOSE i \in DOMAIN state_tensors_names :
                                    state_tensors_names[i] = name])
    ELSE h[e.state_0].a[name]

\* compute_observations(): the observation is read from self.state
compute_observations(m, e) == [e EXCEPT !.obs_buf = StateGet(m.h, e, "q")]

\* variant: truncation one step later (progress_buf > max_episode_steps)
compute_rewardLate(e) ==
    [e EXCEPT !.reset_buf = [i \in Envs |->
                                IF e.progress_buf[i] > cfg.episode_length THEN TRUE ELSE @[i]]]

\* compute_reward(): an environment whose progress passed the episode length
\* is marked for reset
compute_reward(e) ==
    [e EXCEPT !.reset_buf = [i \in Envs |->
                                IF e.progress_buf[i] > cfg.episode_length - 1 THEN TRUE ELSE @[i]]]

\* variant: the assignment reaches the shadow control as well
ControlAssignThroughShadow(m, e, name, t) ==
    [m |-> [m EXCEPT !.h = IF e.control_0_bwd \in DOMAIN m.h
                           THEN SetA(SetA(m.h, e.control_0, name, TVal(m.h, t)),
                                     e.control_0_bwd, name, TVal(m.h, t))
                           ELSE SetA(m.h, e.control_0, name, TVal(m.h, t))],
     e |-> IF e.has_tensors /\ name \in Range(control_tensors_names)
           THEN [e EXCEPT !.control_tensors =
                    [i \in DOMAIN @ |-> IF control_tensors_names[i] = name THEN t ELSE @[i]]]
           ELSE e]

\* ControlTensors.assign(name, tensor), as pre_physics_step uses it for the action
ControlAssign(m, e, name, t) ==
    [m |-> [m EXCEPT !.h = SetA(m.h, e.control_0, name, TVal(m.h, t))],
     e |-> IF e.has_tensors /\ name \in Range(control_tensors_names)
           THEN [e EXCEPT !.control_tensors =
                    [i \in DOMAIN @ |-> IF control_tensors_names[i] = name THEN t ELSE @[i]]]
           ELSE e]

\* variant: a declared name is replaced in the list only, the array is not
\* written
StateAssignListOnly(m, e, name, t) ==
    [m |-> IF e.has_tensors /\ name \in Range(state_tensors_names)
           THEN m ELSE [m EXCEPT !.h = SetA(m.h, e.state_0, name, TVal(m.h, t))],
     e |-> IF e.has_tensors /\ name \in Range(state_tensors_names)
           THEN [e EXCEPT !.state_tensors =
                    [i \in DOMAIN @ |-> IF state_tensors_names[i] = name THEN t ELSE @[i]]]
           ELSE e]

\* StateTensors.assign(name, tensor)
StateAssign(m, e, name, t) ==
    [m |-> [m EXCEPT !.h = SetA(m.h, e.state_0, name, TVal(m.h, t))],
     e |-> IF e.has_tensors /\ name \in Range(state_tensors_names)
           THEN [e EXCEPT !.state_tensors =
                    [i \in DOMAIN @ |-> IF state_tensors_names[i] = name THEN t ELSE @[i]]]
           ELSE e]

\* the names a caller assigns through self.state
AssignNames == {"q"}

\* variant: before reset() the checkpoint is empty
get_checkpointLenient(m, e) ==
    IF ~e.initialized THEN [err |-> "", state |-> <<>>, control |-> <<>>]
    ELSE [err |-> "",
          state |-> [i \in DOMAIN state_tensors_names |-> Clone(m.h, e.state_tensors[i])],
          control |-> [i \in DOMAIN control_tensors_names |-> Clone(m.h, e.control_tensors[i])]]

\* get_checkpoint(detach=True): RuntimeError before reset(), else clones of the
\* declared state and control tensors
get_checkpoint(m, e) ==
    IF ~e.initialized THEN [err |-> "RuntimeError", state |-> <<>>, control |-> <<>>]
    ELSE [err |-> "",
          state |-> [i \in DOMAIN state_tensors_names |-> Clone(m.h, e.state_tensors[i])],
          control |-> [i \in DOMAIN control_tensors_names |-> Clone(m.h, e.control_tensors[i])]]

RECURSIVE AssignCheckpoint(_, _, _, _)
AssignCheckpoint(r, ck, which, i) ==
    IF which = "state"
    THEN IF i > Len(ck.state) THEN AssignCheckpoint(r, ck, "control", 1)
         ELSE The({AssignCheckpoint(x, ck, which, i + 1) :
                      x \in {StateAssign(r.m, r.e, state_tensors_names[i], ck.state[i])}})
    ELSE IF i > Len(ck.control) THEN r
         ELSE The({AssignCheckpoint(x, ck, which, i + 1) :
                      x \in {ControlAssign(r.m, r.e, control_tensors_names[i], ck.control[i])}})

\* clear_grad(checkpoint=None): the checkpoint is taken first, the buffers are
\* replaced by detached clones of the same values, the checkpoint is assigned
clear_grad(m, e) ==
    The({IF ck.err # "" THEN [m |-> Raise(m, ck.err, "call reset() first"), e |-> e]
         ELSE AssignCheckpoint([m |-> m, e |-> e], ck, "state", 1) :
            ck \in {get_checkpoint(m, e)}})

\* initialize_trajectory(): clear_grad(), then compute_observations()
initialize_trajectory(m, e) ==
    The({IF Ok(r.m) THEN [m |-> r.m, e |-> compute_observations(r.m, r.e)] ELSE r :
            r \in {clear_grad(m, e)}})

\* the calls that take a checkpoint of the environment
CheckpointCalls == {"get_checkpoint", "clear_grad", "initialize_trajectory"}
CheckpointCall(which, m, e) ==
    CASE which = "get_checkpoint" ->
            The({[m |-> IF ck.err # "" THEN Raise(m, ck.err, "call reset() first") ELSE m,
                  e |-> e] : ck \in {get_checkpoint(m, e)}})
      [] which = "clear_grad" -> clear_grad(m, e)
      [] OTHER -> initialize_trajectory(m, e)

\* the actions a caller passes: the row of environment i holds v + i - 1
ActionRows(v) == [i \in Envs |-> (v + i - 1) % NumVals]

\* pre_physics_step(actions): self.actions = actions, and the activations
\* assigned through self.control
pre_physics_step(m, e, v) ==
    ControlAssign(m, [e EXCEPT !.actions = ActionRows(v)], "act", Own(v))

\* the values of the argument clear_grad of reset
ClearGradArgs == {"None", "True", "False"}

\* reset(): the clearing of self.actions. new_actions.scatter(...) returns a
\* new tensor that is dropped, so new_actions stays all zero
ClearActions(actions, env_ids, cg) ==
    IF Cardinality(env_ids) = NumEnvs THEN [i \in Envs |-> 0]
    ELSE IF requires_grad /\ cg = "False" THEN [i \in Envs |-> 0]
    ELSE [i \in Envs |-> IF i \in env_ids THEN 0 ELSE actions[i]]

\* reset(env_ids, clear_grad): init() on the first call only, then reset_idx,
\* the actions, the progress counters, clear_grad() when asked for, and the
\* observation; env_ids is the set of environments the index tensor names
reset(m, e, env_ids, cg) ==
    The(UNION {UNION {{IF ~Ok(r.m) THEN r
                       ELSE [m |-> r2.m, e |-> compute_observations(r2.m, r2.e)] :
                         r2 \in {IF ~Ok(r.m) THEN r
                                 ELSE IF requires_grad /\ cg = "True" THEN clear_grad(r.m, e2)
                                 ELSE [m |-> r.m, e |-> e2] :
                                    e2 \in {[r.e EXCEPT
                                               !.last_sout = 0, !.last_fail = NoFail,
                                               !.actions = ClearActions(@, env_ids, cg),
                                               !.progress_buf = [i \in Envs |->
                                                    IF i \in env_ids THEN 0 ELSE @[i]]]}}} :
                      r \in {reset_idx(r0.m, r0.e, env_ids)}} :
               r0 \in {init_once(m, e)}})

\* reset(): all environments, clear_grad left at None
Reset ==
    /\ nresets < MaxResets
    /\ Calls < MaxCalls
    /\ \E r \in {reset(Machine, env, Envs, "None")} :
           /\ env' = r.e
           /\ heap' = Collect(r.m.h, r.e, ctxs, <<>>)
           /\ nextId' = r.m.nid
           /\ tapes' = CollectTapes(r.m.tapes, r.e, ctxs)
           /\ nextTape' = r.m.ntape
           /\ update_graph' = r.m.upd
           /\ bwd_update_graph' = r.m.bwd
           /\ last' = [NoLast EXCEPT !.op = "reset", !.obs = r.e.obs_buf]
    /\ nresets' = nresets + 1
    /\ UNCHANGED <<cfg, ctxs, nsteps, nedits>>

\* reset(env_ids, clear_grad) for some of the environments or all of them
ResetIds ==
    /\ nresets < MaxResets
    /\ Calls < MaxCalls
    /\ \E env_ids \in SUBSET Envs \ {{}}, cg \in ClearGradArgs :
          \E r \in {reset(Machine, env, env_ids, cg)} :
           /\ env' = r.e
           /\ heap' = Collect(r.m.h, r.e, ctxs, <<>>)
           /\ nextId' = r.m.nid
           /\ tapes' = CollectTapes(r.m.tapes, r.e, ctxs)
           /\ nextTape' = r.m.ntape
           /\ update_graph' = r.m.upd
           /\ bwd_update_graph' = r.m.bwd
           /\ last' = [NoLast EXCEPT !.op = "reset", !.err = r.m.err,
                                     !.errname = r.m.errname, !.log = r.m.log,
                                     !.obs = r.e.obs_buf,
                                     !.env_ids = env_ids, !.clear_grad = cg,
                                     !.actions_in = env.actions,
                                     !.progress_in = env.progress_buf]
    /\ nresets' = nresets + 1
    /\ UNCHANGED <<cfg, ctxs, nsteps, nedits>>


\* The tensors a caller passes: the environment's state and control tensors
\* with tensors that hold the model's parameters and mesh points (pick < 0),
\* or tensors that all hold the value pick
PassedTensors(h, e, pick) ==
    IF pick < 0
    THEN e.state_tensors
         \o [i \in DOMAIN model_tensors_names |-> Clone(h, View(ModelId, model_tensors_names[i]))]
         \o e.control_tensors
         \o [i \in DOMAIN MeshSeq |-> Clone(h, View(MeshSeq[i], "points"))]
    ELSE [i \in 1 .. (Len(state_tensors_names) + Len(model_tensors_names)
                      + Len(control_tensors_names) + Len(MeshSeq)) |-> Own(pick)]

\* The binding of forward's parameters by the call in do_physics_step: the
\* call passes eight arguments before *tensors where forward takes nine, so
\* self.control_tensors_names lands in model_tensors_names and the first tensor
\* in control_tensors_names; without a tensor the ninth parameter is missing.
SourceBinding(e) ==
    LET all == e.state_tensors \o e.control_tensors
    IN  IF requires_grad /\ Len(all) > 0
        THEN [snames |-> Names(state_tensors_names), mnames |-> Names(control_tensors_names),
              cnames |-> TensorAsNames, tensors |-> Tail(all), bound |-> TRUE]
        ELSE [snames |-> Names(state_tensors_names), mnames |-> Names(control_tensors_names),
              cnames |-> Names(<<>>), tensors |-> <<>>, bound |-> FALSE]

\* A call that binds the parameters as forward's signature names them
SignatureBinding(h, e, pick) ==
    [snames |-> Names(state_tensors_names), mnames |-> Names(model_tensors_names),
     cnames |-> Names(control_tensors_names), tensors |-> PassedTensors(h, e, pick),
     bound |-> TRUE]

\* A caller that binds the names as the signature does but passes one tensor
\* fewer (the last one is missing) or one more than the names and the meshes
\* require
MiscountBinding(h, e, d) ==
    LET t == PassedTensors(h, e, 0 - 1)
    IN  [snames |-> Names(state_tensors_names), mnames |-> Names(model_tensors_names),
         cnames |-> Names(control_tensors_names),
         tensors |-> IF d = "fewer" THEN SubSeq(t, 1, Len(t) - 1) ELSE Append(t, Own(0)),
         bound |-> TRUE]

\* do_physics_step up to the call: state_1, states_mid, states_bwd, control
CallArgs(m, e, pick) ==
    LET fresh1 == IF requires_grad THEN 1 ELSE 0
        state_1 == IF requires_grad THEN m.nid ELSE e.state_1
        states_mid == IF use_graph_capture THEN <<>>
                      ELSE [i \in 1 .. (SimSubsteps - 1) |-> m.nid + fresh1 + i - 1]
        newobjs == (IF requires_grad THEN {state_1} ELSE {}) \cup Range(states_mid)
        b == CASE cfg.driver = "source" -> SourceBinding(e)
               [] cfg.driver = "signature" -> SignatureBinding(m.h, e, pick)
               [] OTHER -> MiscountBinding(m.h, e, cfg.driver)
    IN  [m |-> [m EXCEPT !.h = [o \in newobjs |-> ZeroState] @@ @,
                         !.nid = @ + Cardinality(newobjs)],
         a |-> [tape |-> e.tape, phys |-> cfg.phys,
                use_graph_capture |-> use_graph_capture, synchronize |-> cfg.synchronize,
                sin |-> e.state_0, mids |-> states_mid, sout |-> state_1, ctl |-> e.control_0,
                sinB |-> e.state_0_bwd, midsB |-> e.states_mid_bwd, soutB |-> e.state_1_bwd,
                ctlB |-> e.control_0_bwd,
                snames |-> b.snames, mnames |-> b.mnames, cnames |-> b.cnames,
                tensors |-> b.tensors, bound |-> b.bound, snap |-> <<>>]]

\* variant: the shadow states are handed over like the logical ones
HandOverSwapShadows(m, e, a) ==
    LET c0 == m.nid
    IN  [m |-> [m EXCEPT !.h = (c0 :> NewControl) @@ @, !.nid = @ + 1],
         e |-> [e EXCEPT !.state_tensors =
                            Slice(IF requires_grad THEN m.outs ELSE <<>>, 0,
                                  Len(state_tensors_names)),
                         !.state_1 = e.state_0,
                         !.state_0 = a.sout,
                         !.state_1_bwd = e.state_0_bwd,
                         !.state_0_bwd = e.state_1_bwd,
                         !.control_0 = c0,
                         !.control_tensors = [i \in DOMAIN control_tensors_names |->
                                                 View(c0, control_tensors_names[i])]]]

\* variant: state_1 is not rebound to the old state_0
HandOverNoSwap(m, e, a) ==
    LET c0 == m.nid
    IN  [m |-> [m EXCEPT !.h = (c0 :> NewControl) @@ @, !.nid = @ + 1],
         e |-> [e EXCEPT !.state_tensors =
                            Slice(IF requires_grad THEN m.outs ELSE <<>>, 0,
                                  Len(state_tensors_names)),
                         !.state_0 = a.sout,
                         !.control_0 = c0,
                         !.control_tensors = [i \in DOMAIN control_tensors_names |->
                                                 View(c0, control_tensors_names[i])]]]

\* do_physics_step after the call returned: outputs, hand-over of the states,
\* a new control
HandOver(m, e, a) ==
    LET c0 == m.nid
    IN  [m |-> [m EXCEPT !.h = (c0 :> NewControl) @@ @, !.nid = @ + 1],
         e |-> [e EXCEPT !.state_tensors =
                            Slice(IF requires_grad THEN m.outs ELSE <<>>, 0,
                                  Len(state_tensors_names)),
                         !.state_1 = e.state_0,
                         !.state_0 = a.sout,
                         !.control_0 = c0,
                         !.control_tensors = [i \in DOMAIN control_tensors_names |->
                                                 View(c0, control_tensors_names[i])]]]

\* ---------------------------------------------------------- reference runs
OutVals(m) == [ok |-> Ok(m), vals |-> [i \in DOMAIN m.outs |-> TVal(m.h, m.outs[i])]]

\* every declared tensor holds the value of the buffer it names
Matched(a, h) ==
    /\ Len(a.tensors) = Len(a.snames.names) + Len(a.mnames.names) + Len(a.cnames.names)
                        + Len(MeshSeq)
    /\ \A i \in DOMAIN a.snames.names : TVal(h, state_tensors(a)[i]) = h[a.sin].a[a.snames.names[i]]
    /\ \A i \in DOMAIN a.mnames.names : TVal(h, model_tensors(a)[i]) = h[ModelId].a[a.mnames.names[i]]
    /\ \A i \in DOMAIN a.cnames.names : TVal(h, control_tensors(a)[i]) = h[a.ctl].a[a.cnames.names[i]]
    /\ \A i \in DOMAIN MeshSeq : TVal(h, mesh_tensors(a)[i]) = h[MeshSeq[i]].a.points

\* the same call with use_graph_capture = False: no tape passed, no shadow
\* buffers, and a list of new intermediate states
EagerRun(a, m) ==
    LET mids == [i \in 1 .. (SimSubsteps - 1) |-> m.nid + i - 1]
        a2 == [a EXCEPT !.use_graph_capture = FALSE, !.tape = NoTape, !.mids = mids]
        m2 == [m EXCEPT !.h = [o \in Range(mids) |-> ZeroState] @@ @]
    IN  The({OutVals(r) : r \in {forward(a2, m2, NoFail)}})

\* the same memory with the shadow buffers and every adjoint slot zeroed
Scrub(a, m) ==
    LET sh == {a.sinB, a.soutB, a.ctlB} \cup Range(a.midsB)
    IN  [m EXCEPT !.h = [o \in DOMAIN m.h |->
                            [m.h[o] EXCEPT
                                !.a = IF o \in sh THEN Zeros(DOMAIN m.h[o].a) ELSE m.h[o].a,
                                !.g = Zeros(DOMAIN m.h[o].g)]]]

ScrubRun(a, m, fail) == The({OutVals(r) : r \in {forward(a, m2, fail) : m2 \in {Scrub(a, m)}}})


\* ----------------------------------------------------------------- actions
HasEv(log, e, on) == \E i \in DOMAIN log : log[i] = Ev(e, on)
CountEv(log, e, on) == Cardinality({i \in DOMAIN log : log[i] = Ev(e, on)})

\* an exception of the physics update or of tape.backward() during capture,
\* after k substeps were recorded
Fails ==
    IF use_graph_capture /\ ~update_graph.set
    THEN {NoFail} \cup {[at |-> w, k |-> k] : w \in {"fwd", "bwd"}, k \in 0 .. (SimSubsteps - 1)}
    ELSE {NoFail}

Picks == IF cfg.driver = "signature" /\ requires_grad THEN {-1} \cup Val ELSE {-1}

\* the contents of the logical state_in and control of a call
LogicalSnap(a, h) == [sin |-> h[a.sin].a, ctl |-> h[a.ctl].a]

\* the tensors a returning forward hands to its caller, each with the value it
\* holds at the return and the number of the step that returned it
ReturnedNow(m1, n) ==
    [i \in DOMAIN m1.outs |-> [t |-> m1.outs[i], v |-> TVal(m1.h, m1.outs[i]), step |-> n]]

\* every declared state tensor holds the values of the array of its name on
\* state_0, every declared control tensor those of the array on control_0
TensorsSynced(h, e) ==
    /\ \A i \in DOMAIN state_tensors_names :
          TVal(h, e.state_tensors[i]) = h[e.state_0].a[state_tensors_names[i]]
    /\ \A i \in DOMAIN control_tensors_names :
          TVal(h, e.control_tensors[i]) = h[e.control_0].a[control_tensors_names[i]]

\* do_physics_step(): the call of UpdateFunction and, when it returns, the
\* hand-over; an exception leaves the fields of the environment as they were
StepResult(e, ca, m1, ho, fail) ==
    [m |-> IF Ok(m1) THEN ho.m ELSE m1,
     e |-> [(IF Ok(m1) THEN ho.e ELSE e) EXCEPT
               !.last_sout = ca.a.sout, !.last_fail = fail,
               !.returned = IF Ok(m1) THEN @ \o ReturnedNow(m1, nsteps + 1) ELSE @],
     cs |-> IF Ok(m1) /\ requires_grad
            THEN Append(ctxs, [ca.a EXCEPT !.tape = m1.tape, !.snap = m1.snap])
            ELSE ctxs,
     l |-> [NoLast EXCEPT !.op = "step", !.err = m1.err, !.errname = m1.errname,
                          !.log = m1.log, !.outs = m1.outs, !.via = "UpdateFunction",
                          !.call = [ca.a EXCEPT !.tape = m1.tape, !.snap = m1.snap],
                          !.snap = m1.snap,
                          !.matched = Matched(ca.a, ca.m.h),
                          !.captured = HasEv(m1.log, "capture_begin", "update_graph"),
                          !.ref_eager = IF ca.a.use_graph_capture /\ ca.a.bound
                                        THEN EagerRun(ca.a, ca.m) ELSE NoRef,
                          !.ref_scrub = IF ca.a.use_graph_capture /\ ca.a.bound
                                        THEN ScrubRun(ca.a, ca.m, fail) ELSE NoRef,
                          !.prev_sout = e.last_sout, !.prev_fail = e.last_fail,
                          !.fail = fail,
                          !.tape_in = ca.a.tape,
                          !.synced = TensorsSynced(ca.m.h, e),
                          !.decl = e.state_tensors \o e.control_tensors,
                          !.pushed = m1.pushed,
                          !.logical = LogicalSnap(ca.a, ca.m.h),
                          !.invals = [i \in DOMAIN ca.a.tensors |->
                                         TVal(ca.m.h, ca.a.tensors[i])],
                          !.pre = IF ca.a.use_graph_capture
                                  THEN ShadowSnap(ca.a, ca.m.h) ELSE <<>>,
                          !.had_graphs = ca.m.upd.set /\ ca.m.bwd.set]]

CallUpdateFunction(m, e, pick, fail) ==
    The(UNION {UNION {{StepResult(e, ca, m1, ho, fail) : ho \in {HandOver(m1, e, ca.a)}} :
                      m1 \in {forward(ca.a, ca.m, fail)}} :
               ca \in {CallArgs(m, e, pick)}})

\* Environment.update(): each substep simulates state_0 into state_1 and swaps
\* the two
RECURSIVE EnvironmentUpdate(_, _, _)
EnvironmentUpdate(m, e, i) ==
    IF i > SimSubsteps THEN [m |-> m, e |-> e]
    ELSE LET L == [Launch(e.state_0, <<>>, e.state_1, e.control_0) EXCEPT !.nsub = 1]
         IN  The({EnvironmentUpdate(m1, [e EXCEPT !.state_0 = e.state_1, !.state_1 = e.state_0],
                                    i + 1) :
                     m1 \in {Log([m EXCEPT !.h = PhysSub(cfg.phys, m.h, L, 1)],
                                 "simulate", "logical")}})

PlainResult(r) ==
    [m |-> r.m, e |-> r.e, cs |-> ctxs,
     l |-> [NoLast EXCEPT !.op = "step", !.log = r.m.log, !.via = "Environment.update"]]

\* variant: do_physics_step calls UpdateFunction in every mode
UsesUpdateFunctionAlways == TRUE

\* `if self.requires_grad or self.use_graph_capture:`
UsesUpdateFunction == requires_grad \/ use_graph_capture

do_physics_step(m, e, pick, fail) ==
    IF UsesUpdateFunction THEN CallUpdateFunction(m, e, pick, fail)
    ELSE The({PlainResult(r) : r \in {EnvironmentUpdate(m, e, 1)}})

\* a stage of step(): the environment after it, and its name in the order of
\* execution
Stage(x, name, e) ==
    IF x.l.err # "" THEN x ELSE [x EXCEPT !.e = e, !.l.slog = Append(@, name)]

\* `if len(env_ids) > 0:` keep the observation and reset
StepReset(x) ==
    IF {i \in Envs : x.e.reset_buf[i]} # {}
    THEN The({[Stage([x EXCEPT !.m = r.m], "reset", r.e) EXCEPT
                  !.l.err = r.m.err, !.l.errname = r.m.errname] :
                 r \in {reset(x.m, [x.e EXCEPT !.extras.obs_before_reset =
                                                   [none |-> FALSE, obs |-> x.e.obs_buf]],
                              {i \in Envs : x.e.reset_buf[i]}, "None")}})
    ELSE x

\* variant: the reset is decided before the observation is computed
PostPhysicsResetFirst(x) ==
    The({Stage(x6, "render", x6.e) :
         x6 \in {Stage(x5, "compute_observations", compute_observations(x5.m, x5.e)) :
         x5 \in {StepReset(x4) :
         x4 \in {[x3 EXCEPT !.e.extras = NoExtras] :
         x3 \in {Stage(x2, "compute_reward", compute_reward(x2.e)) :
         x2 \in {Stage(x1, "reset_buf", [x1.e EXCEPT !.reset_buf = [i \in Envs |-> FALSE]]) :
         x1 \in {Stage(x, "progress_buf", [x.e EXCEPT !.progress_buf = [i \in Envs |-> @[i] + 1]])}}}}}}})

\* step() after do_physics_step returned: counters, reset_buf, observation,
\* reward, extras, the reset of finished environments, render
PostPhysics(x) ==
    The({Stage(x6, "render", x6.e) :
         x6 \in {StepReset(x5) :
         x5 \in {[x4 EXCEPT !.e.extras = NoExtras] :
         x4 \in {Stage(x3, "compute_reward", compute_reward(x3.e)) :
         x3 \in {Stage(x2, "compute_observations", compute_observations(x2.m, x2.e)) :
         x2 \in {Stage(x1, "reset_buf", [x1.e EXCEPT !.reset_buf = [i \in Envs |-> FALSE]]) :
         x1 \in {Stage(x, "progress_buf", [x.e EXCEPT !.progress_buf = [i \in Envs |-> @[i] + 1]])}}}}}}})

\* step(actions): what it returns is kept with the call (obs, extras), with
\* the observation of the state the physics step left (obs_physics)
step(m, e, v, pick, fail) ==
    LET p == pre_physics_step(m, e, v)
        r == The({[x EXCEPT !.l.slog = <<"pre_physics_step", "do_physics_step">>,
                            !.l.sh1 = ShadowFull(p.e, p.m.h),
                            !.l.obs_physics = StateGet(x.m.h, x.e, "q")] :
                     x \in {do_physics_step(p.m, p.e, pick, fail)}})
    IN  IF r.l.err # "" THEN r
        ELSE The({[x EXCEPT !.l.obs = x.e.obs_buf, !.l.extras = x.e.extras] :
                     x \in {PostPhysics(r)}})

Step ==
    /\ nsteps < MaxSteps
    /\ Calls < MaxCalls
    /\ env.initialized
    /\ \E v \in Val, pick \in Picks, fail \in Fails :
          \E r \in {step(Machine, env, v, pick, fail)} :
              /\ env' = r.e
              /\ ctxs' = r.cs
              /\ heap' = Collect(r.m.h, r.e, r.cs, r.l.outs)
              /\ nextId' = r.m.nid
              /\ tapes' = CollectTapes(r.m.tapes, r.e, r.cs)
              /\ nextTape' = r.m.ntape
              /\ update_graph' = r.m.upd
              /\ bwd_update_graph' = r.m.bwd
              /\ last' = r.l
    /\ nsteps' = nsteps + 1
    /\ UNCHANGED <<cfg, nresets, nedits>>

\* the same memory with every adjoint slot zeroed
ZeroAdjoints(m) ==
    [m EXCEPT !.h = [o \in DOMAIN m.h |-> [m.h[o] EXCEPT !.g = Zeros(DOMAIN m.h[o].g)]]]

\* the result of backward on a memory no earlier backward has left a trace in
ZeroAdjRun(c, adj, m) ==
    The({[ok |-> Ok(r), adj |-> r.adj] : r \in {backward(c, adj, m0) : m0 \in {ZeroAdjoints(m)}}})

\* the parameters of forward before *tensors (ctx apart) and what backward
\* returns for them
ForwardParams ==
    <<"update_params", "sim_params", "states", "control", "states_bwd", "control_bwd",
      "state_tensors_names", "model_tensors_names", "control_tensors_names">>
BackwardParamGrads ==
    <<"None", "None", "None", "None", "None", "None", "None", "None", "None">>

\* the array each tensor passed to forward stands for, in the order of
\* *tensors: state, model and control tensors by name, then the mesh points
InputArrays(a) ==
    [i \in DOMAIN state_tensors(a) |-> Ref(BwdStateIn(a), a.snames.names[i])]
    \o [i \in DOMAIN model_tensors(a) |-> Ref(ModelId, a.mnames.names[i])]
    \o [i \in DOMAIN control_tensors(a) |-> Ref(BwdControl(a), a.cnames.names[i])]
    \o [i \in DOMAIN mesh_tensors(a) |-> Ref(MeshSeq[i], "points")]

\* the outputs of a forward that returned: one per state, model and control
\* name and one per mesh tensor
NumOutputs(c) == NLen(c.snames) + NLen(c.mnames) + NLen(c.cnames) + Len(mesh_tensors(c))

\* the autograd engine runs backward of the most recent node, with one output
\* adjoint per output of its forward, holding g, g + 1, g + 2, ... in the
\* order of the outputs
Backward ==
    /\ ctxs # <<>>
    /\ \E g \in Val :
          LET c == ctxs[Len(ctxs)]
              cs == SubSeq(ctxs, 1, Len(ctxs) - 1)
              adj == [i \in 1 .. NumOutputs(c) |-> (g + i - 1) % NumVals]
          IN  \E m1 \in {backward(c, adj, Machine)} :
              /\ ctxs' = cs
              /\ heap' = Collect(m1.h, env, cs, <<>>)
              /\ nextId' = m1.nid
              /\ tapes' = CollectTapes(m1.tapes, env, cs)
              /\ nextTape' = m1.ntape
              /\ update_graph' = m1.upd
              /\ bwd_update_graph' = m1.bwd
              /\ last' = [NoLast EXCEPT !.op = "backward", !.err = m1.err,
                                        !.errname = m1.errname, !.log = m1.log,
                                        !.adj = m1.adj, !.call = c, !.snap = m1.snap,
                                        !.had_graphs = update_graph.set /\ bwd_update_graph.set,
                                        !.pre = IF c.use_graph_capture
                                                THEN ShadowSnap(c, heap) ELSE <<>>,
                                        !.grads = m1.tapes[c.tape].gradients,
                                        !.slots = The({IF Ok(mr) THEN AdjSlots(c, mr) ELSE <<>> :
                                                       mr \in {BwdReverse(c, adj, Machine)}}),
                                        !.rev = The({IF Ok(mr) THEN TapeAdjoints(mr, c.tape) ELSE {} :
                                                     mr \in {BwdReverse(c, adj, Machine)}}),
                                        !.outadj = adj,
                                        !.pushed = m1.pushed,
                                        !.assigned = m1.assigned,
                                        !.logical = LogicalSnap(c, heap),
                                        !.invals = [i \in DOMAIN c.tensors |->
                                                       TVal(heap, c.tensors[i])],
                                        !.ref_zero = ZeroAdjRun(c, adj, Machine)]
    /\ UNCHANGED <<cfg, env, nsteps, nresets, nedits>>

\* the caller's self.state.assign(name, tensor) with a tensor of its own
StateAssignCall ==
    /\ nedits < MaxEdits
    /\ Calls < MaxCalls
    /\ env.initialized
    /\ \E name \in AssignNames, v \in Val :
          \E r \in {StateAssign(Machine, env, name, Own(v))} :
              /\ env' = r.e
              /\ heap' = Collect(r.m.h, r.e, ctxs, <<>>)
              /\ last' = [NoLast EXCEPT !.op = "state_assign"]
    /\ nedits' = nedits + 1
    /\ UNCHANGED <<cfg, nextId, tapes, nextTape, update_graph, bwd_update_graph, ctxs,
                   nsteps, nresets>>

\* the caller's get_checkpoint(), clear_grad() or initialize_trajectory(),
\* before or after the first reset()
ClearGrad ==
    /\ nedits < MaxEdits
    /\ Calls < MaxCalls
    /\ \E which \in CheckpointCalls :
          \E r \in {CheckpointCall(which, Machine, env)} :
              /\ env' = r.e
              /\ heap' = Collect(r.m.h, r.e, ctxs, <<>>)
              /\ last' = [NoLast EXCEPT !.op = which, !.err = r.m.err,
                                        !.errname = r.m.errname, !.log = r.m.log]
    /\ nedits' = nedits + 1
    /\ UNCHANGED <<cfg, nextId, tapes, nextTape, update_graph, bwd_update_graph, ctxs,
                   nsteps, nresets>>

\* backward post-processes an entry of an input adjoint under a policy
PostProcessCall ==
    /\ \E x \in AdjEntries, slot \in AdjSlotKinds, pol \in Policies :
          last' = [NoLast EXCEPT !.op = "postprocess", !.policy = pol, !.slot = slot,
                                 !.grad = [in |-> x, out |-> PostProcess(x, slot, pol)]]
    /\ UNCHANGED <<cfg, heap, nextId, tapes, nextTape, update_graph, bwd_update_graph, env,
                   ctxs, nsteps, nresets, nedits>>

Next == Reset \/ Step \/ Backward \/ StateAssignCall \/ ClearGrad

Spec == Init /\ [][Next]_vars
SpecSync == InitSync /\ [][Next]_vars
SpecEnv == InitEnv /\ [][Next]_vars
\* the post-processing of adjoints alone, over entries and policies
SpecClip == InitClip /\ [][PostProcessCall]_vars
\* steps and resets of some or all environments
NextIds == ResetIds \/ Step
SpecIds == InitIds /\ [][NextIds]_vars

\* ------------------------------------------------------------------ claims
LastVals == [i \in DOMAIN last.outs |-> TVal(heap, last.outs[i])]
GcStep == last.op = "step" /\ last.call.use_graph_capture /\ last.call.bound
GcBackward == last.op = "backward" /\ last.call.use_graph_capture
Returned == last.err = ""
\* the position of the first event e on `on` in the log of the last call (0: none)
FirstEv(e, on) ==
    IF HasEv(last.log, e, on)
    THEN CHOOSE i \in DOMAIN last.log :
            last.log[i] = Ev(e, on) /\ \A j \in 1 .. (i - 1) : last.log[j] # Ev(e, on)
    ELSE 0
NoEvNamed(e) == \A i \in DOMAIN last.log : last.log[i].ev # e

\* C1: with the same physics update, model and logical buffer contents, and
\* every declared tensor equal to the buffer it names, a graph-capture forward
\* that returns gives the output values of the eager forward.
C1_EagerGraphEquivalence ==
    (GcStep /\ Returned /\ last.matched)
        => last.ref_eager = [ok |-> TRUE, vals |-> LastVals]

\* C2: a graph-capture forward returns what the same call returns on a memory
\* whose shadow buffers and adjoint slots are zeroed: the leftovers of earlier
\* forward and backward calls do not influence outputs or exception.
C2_ReplayDeterminism ==
    GcStep => last.ref_scrub = [ok |-> Returned, vals |-> LastVals]

C2_Witness ==
    /\ GcStep /\ Returned /\ last.had_graphs /\ Len(last.outs) > 1
    /\ \E o \in {last.call.soutB} \cup Range(last.call.midsB) : last.pre[o].q # 0
    /\ \E i \in DOMAIN last.outs : LastVals[i] # 0

\* C3: once both graphs are set no step, backward or reset changes either of
\* them, no call that starts with both graphs set captures, and only the
\* first forward call of the environment captures.
C3_CaptureOnce ==
    [][/\ (update_graph.set /\ bwd_update_graph.set)
            => /\ update_graph' = update_graph
               /\ bwd_update_graph' = bwd_update_graph
               /\ \A i \in DOMAIN last'.log : last'.log[i].ev # "capture_begin"
       /\ (last'.op = "step" /\ nsteps' > 1)
            => \A i \in DOMAIN last'.log : last'.log[i].ev # "capture_begin"
       /\ last'.op = "backward"
            => \A i \in DOMAIN last'.log : last'.log[i].ev # "capture_begin"]_vars

C3_Witness ==
    /\ GcStep /\ Returned /\ last.had_graphs /\ nsteps = 2 /\ nresets = 2
    /\ update_graph.set /\ bwd_update_graph.set

\* C4: a capture that failed leaves neither graph handle set to its graph, and
\* no call launches a graph of a failed capture.
C4_FailedCaptureLeavesNoGraph ==
    /\ ~update_graph.partial
    /\ ~bwd_update_graph.partial
    /\ (last.op = "step" /\ last.fail.at = "fwd") => ~update_graph.set
    /\ (last.op = "step" /\ last.fail.at = "bwd") => ~bwd_update_graph.set

\* C5: in a capturing forward the forward capture runs the physics update
\* under the tape on the shadow buffers, the backward capture begins right
\* after the forward capture ended and runs tape.backward(), and no physics
\* update runs on the logical buffers.
C5_CaptureOrder ==
    (last.op = "step" /\ last.call.use_graph_capture) =>
        \A i \in DOMAIN last.log :
            /\ last.log[i] = Ev("capture_begin", "update_graph")
                 => i < Len(last.log) /\ last.log[i + 1] = Ev("sim_update", "shadow")
            /\ last.log[i].ev = "sim_update"
                 => /\ last.log[i].on = "shadow"
                    /\ i > 1 /\ last.log[i - 1] = Ev("capture_begin", "update_graph")
                    /\ i < Len(last.log) /\ last.log[i + 1] = Ev("capture_end", "update_graph")
            /\ last.log[i] = Ev("capture_begin", "bwd_update_graph")
                 => /\ i > 1 /\ last.log[i - 1] = Ev("capture_end", "update_graph")
                    /\ i + 1 < Len(last.log)
                    /\ last.log[i + 1] = Ev("tape_backward", "capture")
                    /\ last.log[i + 2] = Ev("capture_end", "bwd_update_graph")

C5_Witness ==
    /\ GcStep /\ Returned /\ last.captured
    /\ FirstEv("capture_end", "bwd_update_graph") > FirstEv("capture_end", "update_graph")

\* C6: a graph-capture forward that returns launched the forward graph exactly
\* once, after the push of its inputs; a call that starts with both graphs set
\* runs neither the physics update nor tape.backward() itself; a graph-capture
\* backward that returns launched each graph exactly once.
C6_ReplayOnly ==
    /\ (GcStep /\ Returned)
         => /\ CountEv(last.log, "capture_launch", "update_graph") = 1
            /\ FirstEv("assign_tensors", "state") > 0
            /\ FirstEv("assign_tensors", "state") < FirstEv("assign_tensors", "control")
            /\ FirstEv("assign_tensors", "control") < FirstEv("assign", "model")
            /\ FirstEv("assign", "model") < FirstEv("assign", "mesh")
            /\ FirstEv("assign", "mesh") < FirstEv("capture_launch", "update_graph")
    /\ ((GcStep \/ GcBackward) /\ last.had_graphs)
         => NoEvNamed("sim_update") /\ NoEvNamed("tape_backward") /\ NoEvNamed("capture_begin")
    /\ (GcBackward /\ Returned)
         => /\ CountEv(last.log, "capture_launch", "bwd_update_graph") = 1
            /\ CountEv(last.log, "capture_launch", "update_graph") = 1

C6_Witness ==
    GcBackward /\ Returned /\ last.had_graphs /\ nsteps = 2 /\ ctxs = <<>>

\* C7: a graph-capture backward pushes the saved inputs and replays the
\* forward graph before it writes the output adjoints and replays the backward
\* graph, and the buffers the reverse pass runs on hold what the paired
\* forward left in them.
C7_Checkpointing ==
    (GcBackward /\ HasEv(last.log, "capture_launch", "bwd_update_graph"))
        => /\ last.snap = last.call.snap
           /\ 0 < FirstEv("assign_tensors", "state")
           /\ FirstEv("assign_tensors", "state") < FirstEv("capture_launch", "update_graph")
           /\ FirstEv("assign", "mesh") < FirstEv("capture_launch", "update_graph")
           /\ FirstEv("capture_launch", "update_graph") < FirstEv("assign_adjoints", "shadow")
           /\ FirstEv("assign_adjoints", "shadow") < FirstEv("capture_launch", "bwd_update_graph")

\* backward of the first of two steps, after the second overwrote the buffers
C7_Witness ==
    /\ GcBackward /\ Returned /\ nsteps = 2 /\ ctxs = <<>>
    /\ last.pre # last.snap
    /\ last.snap = last.call.snap

\* the declared state, model and control arrays without a gradient on the tape
MissingLookups ==
    {i \in DOMAIN GradLookups(last.call) : GradLookups(last.call)[i] \notin last.grads}
MissingNames == {GradLookups(last.call)[i][2] : i \in MissingLookups}
MissingMesh ==
    IF Len(mesh_tensors(last.call)) > 0
    THEN {i \in DOMAIN MeshSeq : Ref(MeshSeq[i], "points") \notin last.grads}
    ELSE {}

C9_BufferSwap ==
    (last.op = "step" /\ last.prev_sout # 0 /\ last.prev_fail = NoFail)
        => last.call.sin = last.prev_sout

\* C10: in every call of forward the logical states state_in, states_mid and
\* state_out and, under graph capture, the shadow states are pairwise distinct
\* objects.
C10_DistinctBuffers ==
    last.op = "step" =>
        LET a == last.call
            all == <<a.sin>> \o a.mids \o <<a.sout>>
                   \o (IF a.use_graph_capture THEN <<a.sinB>> \o a.midsB \o <<a.soutB>>
                       ELSE <<>>)
        IN  \A i, j \in DOMAIN all : i # j => all[i] # all[j]

C10_Witness ==
    /\ last.op = "step" /\ Returned /\ last.call.use_graph_capture
    /\ nsteps = 2 /\ nresets = 2 /\ last.prev_sout # 0
    /\ Len(last.call.midsB) > 0

\* the shadow objects the environment holds
ShadowObjs(e) ==
    {e.state_0_bwd, e.state_1_bwd, e.control_0_bwd} \cup Range(e.states_mid_bwd)

\* C11: once init_sim has allocated them, state_0_bwd, state_1_bwd, the list
\* states_mid_bwd and control_0_bwd name the same objects after every reset,
\* step, clear_grad, state.assign and backward, the objects stay allocated, and
\* every forward under graph capture is passed exactly these objects.
C11_ShadowIdentity ==
    [][env.initialized =>
          /\ env'.state_0_bwd = env.state_0_bwd
          /\ env'.state_1_bwd = env.state_1_bwd
          /\ env'.states_mid_bwd = env.states_mid_bwd
          /\ env'.control_0_bwd = env.control_0_bwd
          /\ use_graph_capture => ShadowObjs(env) \subseteq DOMAIN heap'
          /\ (last'.op = "step" /\ use_graph_capture) =>
                /\ last'.call.sinB = env.state_0_bwd
                /\ last'.call.soutB = env.state_1_bwd
                /\ last'.call.midsB = env.states_mid_bwd
                /\ last'.call.ctlB = env.control_0_bwd
                /\ Cardinality(ShadowObjs(env)) = SimSubsteps + 2]_vars

\* a second step under graph capture has returned after a second reset
C11_Witness ==
    /\ use_graph_capture
    /\ nresets = 2
    /\ nsteps = 2
    /\ last.op = "step"
    /\ Returned
    /\ last.call.sinB = env.state_0_bwd

\* C12: reset (with reset_idx), clear_grad, state.assign and the
\* pre_physics_step of a step (control.assign) leave the contents and the
\* adjoints of every shadow buffer as they were; only the forward of a step
\* and backward write them.
C12_ShadowFrame ==
    [][env.initialized =>
          /\ last'.op \in {"reset", "clear_grad", "state_assign"} =>
                ShadowFull(env', heap') = ShadowFull(env, heap)
          /\ last'.op = "step" => last'.sh1 = ShadowFull(env, heap)]_vars

\* clear_grad has assigned the declared tensors while the shadow state holds
\* what an earlier forward pushed into it
C12_Witness ==
    /\ use_graph_capture
    /\ last.op = "clear_grad"
    /\ Len(state_tensors_names) > 0
    /\ nsteps > 0
    /\ heap[env.state_0_bwd].a.q # 0
    /\ heap[env.state_0_bwd].a.q # heap[env.state_0].a.q

\* C13: when the physics update is a no-op, a forward under graph capture
\* that returns hands back, for every declared state, model, control and mesh
\* name, the value of the input tensor it was passed for that name.
C13_PushPullIdentity ==
    (/\ last.op = "step" /\ Returned
     /\ last.call.use_graph_capture
     /\ last.call.phys = "noop")
    => /\ Len(last.outs) = Len(last.invals)
       /\ \A i \in DOMAIN last.outs : TVal(heap, last.outs[i]) = last.invals[i]

\* C14: under graph capture every tensor a forward returned still holds the
\* value it held at the return, whatever ran since: later forward and
\* backward replays, assignments into the logical and shadow buffers, resets
\* and tape.zero().
C14_GraphOutputsIndependent ==
    use_graph_capture =>
        \A i \in DOMAIN env.returned :
            TVal(heap, env.returned[i].t) = env.returned[i].v

\* the state output of step 1 is still held after state.assign wrote the
\* buffer it was read from, a second forward replayed the graph and a
\* backward replayed the backward graph and zeroed the tape
C14_Witness ==
    /\ use_graph_capture
    /\ last.op = "backward" /\ Returned
    /\ nsteps = 2 /\ nedits = 1
    /\ Len(state_tensors_names) > 0
    /\ env.returned # <<>>
    /\ env.returned[1].step = 1
    /\ heap[env.state_1].a[state_tensors_names[1]] # env.returned[1].v

\* C15: in eager mode, too, every tensor a forward returned still holds the
\* value it held at the return after the state_out, model or control buffer
\* it was read from is written in place.
C15_EagerOutputsIndependent ==
    ~use_graph_capture =>
        \A i \in DOMAIN env.returned :
            TVal(heap, env.returned[i].t) = env.returned[i].v

\* C16: no call rebinds an attribute of a state, control, model, mesh or
\* shadow object to another array: over every step (forward), backward,
\* reset, clear_grad and state.assign each object that stays allocated keeps,
\* for every attribute, the array it was made with; values and adjoints change
\* by assignment into that array.
C16_NoRebinding ==
    [][\A o \in DOMAIN heap \cap DOMAIN heap' : heap'[o].arr = heap[o].arr]_vars

\* forward has pushed into the shadow state and copied out, state.assign has
\* written state_0 and backward has written adjoints, all into the arrays the
\* objects were made with
C16_Witness ==
    /\ use_graph_capture
    /\ last.op = "backward" /\ Returned
    /\ nedits = 1
    /\ Len(state_tensors_names) > 0
    /\ heap[env.state_0_bwd].a.q # 0
    /\ \E i \in DOMAIN last.adj : last.adj[i] # 0
    /\ \A o \in DOMAIN heap : \A n \in DOMAIN heap[o].arr : heap[o].arr[n] = 0

\* the positions of the events e on `on` in the log of the last call
EvAt(e, on) == {i \in DOMAIN last.log : last.log[i] = Ev(e, on)}
ReversePassAt == EvAt("tape_backward", "") \cup EvAt("capture_launch", "bwd_update_graph")
OutputAdjointsAt == EvAt("assign_adjoints", "logical") \cup EvAt("assign_adjoints", "shadow")

C18_TapeZeroedAfterBackward ==
    (last.op = "backward" /\ Returned)
    => /\ \A r \in last.grads : r[1] \in DOMAIN heap => heap[r[1]].g[r[2]] = 0
       /\ last.ref_zero.ok
       /\ last.adj = last.ref_zero.adj

\* the second backward on the persistent tape returned non-zero adjoints,
\* after the first one had accumulated into the same shadow buffers
C18_Witness ==
    /\ last.op = "backward" /\ Returned
    /\ use_graph_capture
    /\ nsteps = 2 /\ ctxs = <<>>
    /\ last.grads # {}
    /\ \E i \in DOMAIN last.adj : last.adj[i] # 0

\* C19: without graph capture the environment holds no tape and passes
\* tape=None; every forward that binds its parameters creates a tape of its
\* own, the one its ctx keeps, on which only that step's physics update is
\* recorded, so the paired backward reverses that step only. With graph
\* capture exactly one tape exists, the one init_sim created: every forward is
\* passed it, creates none, and every ctx and every backward uses it.
C19_TapeLifetime ==
    /\ ~use_graph_capture =>
          /\ env.tape = NoTape
          /\ (last.op = "step" /\ last.call.bound) =>
                /\ last.tape_in = NoTape
                /\ CountEv(last.log, "Tape", "") = 1
                /\ last.call.tape # NoTape
                /\ \A i \in DOMAIN ctxs :
                      ctxs[i].tape = last.call.tape => (i = Len(ctxs) /\ Returned)
          /\ \A i, j \in DOMAIN ctxs : i # j => ctxs[i].tape # ctxs[j].tape
          /\ \A i \in DOMAIN ctxs :
                /\ ctxs[i].tape \in DOMAIN tapes
                /\ Range(tapes[ctxs[i].tape].launches) \subseteq {LogicalLaunch(ctxs[i])}
          /\ last.op = "backward" =>
                /\ CountEv(last.log, "Tape", "") = 0
                /\ last.grads \subseteq Touched(last.call.phys, LogicalLaunch(last.call))
    /\ (use_graph_capture /\ env.initialized) =>
          /\ env.tape # NoTape
          /\ DOMAIN tapes = {env.tape}
          /\ nextTape = env.tape + 1
          /\ \A i \in DOMAIN ctxs : ctxs[i].tape = env.tape
          /\ CountEv(last.log, "Tape", "") = 0
          /\ (last.op = "step" /\ last.call.bound) =>
                (last.tape_in = env.tape /\ last.call.tape = env.tape)
          /\ last.op = "backward" => last.call.tape = env.tape

\* two eager steps have returned, each with a tape of its own in its ctx
C19_Witness ==
    /\ ~use_graph_capture
    /\ last.op = "step" /\ Returned
    /\ Len(ctxs) = 2
    /\ ctxs[1].tape # ctxs[2].tape
    /\ tapes[ctxs[1].tape].launches # <<>>
    /\ tapes[ctxs[2].tape].launches # <<>>

\* the positions in the log of the last call of: a synchronization; a copy of
\* a tensor into a buffer, a capture or a launch; a read of the results
SyncAt == EvAt("synchronize_device", "")
DeviceWorkAt ==
    {i \in DOMAIN last.log :
        last.log[i].ev \in {"capture_begin", "capture_end", "sim_update", "tape_backward",
                            "assign_tensors", "assign", "assign_adjoints", "capture_launch"}}
ResultReadAt == EvAt("outputs", "") \cup EvAt("read_adjoints", "")

\* C20: with synchronize set, a forward or backward call that returns issues
\* exactly two device synchronizations: the first before any tensor is copied
\* into a buffer and before any capture or launch, the second after the last
\* copy and launch of the pass and before any output tensor or input adjoint
\* is read; a call that raises has issued the first one before any such work.
\* With synchronize not set no call issues one.
C20_Synchronization ==
    (last.op \in {"step", "backward"} /\ last.call.bound)
    => /\ ~cfg.synchronize => SyncAt = {}
       /\ cfg.synchronize =>
             /\ Cardinality(SyncAt) \in {1, 2}
             /\ \A w \in DeviceWorkAt : \E s \in SyncAt : s < w
             /\ Returned =>
                   /\ Cardinality(SyncAt) = 2
                   /\ DeviceWorkAt # {} /\ ResultReadAt # {}
                   /\ \E s1, s2 \in SyncAt :
                         /\ \A w \in DeviceWorkAt : s1 < w /\ w < s2
                         /\ \A r \in ResultReadAt : s2 < r

\* a backward under graph capture returned with synchronize set
C20_Witness ==
    /\ cfg.synchronize
    /\ use_graph_capture
    /\ last.op = "backward" /\ Returned
    /\ Cardinality(SyncAt) = 2
    /\ HasEv(last.log, "capture_launch", "bwd_update_graph")

\* C22: every call do_physics_step makes to UpdateFunction binds forward's
\* parameters so that state_tensors_names, model_tensors_names and
\* control_tensors_names are each a sequence of names (state and control the
\* environment's declared ones) and the tensors that follow hold one tensor
\* per declared name, in the order state, model, control.
C22_CallBinding ==
    (last.op = "step" /\ cfg.driver = "source")
    => /\ last.call.bound
       /\ ~last.call.snames.tensor /\ ~last.call.mnames.tensor /\ ~last.call.cnames.tensor
       /\ last.call.snames.names = state_tensors_names
       /\ last.call.cnames.names = control_tensors_names
       /\ Len(last.call.tensors) >= Len(last.call.snames.names) + Len(last.call.mnames.names)
                                    + Len(last.call.cnames.names)

\* what the push leaves in array n of a shadow buffer: the declared tensor
\* when n is declared and a tensor was passed for it, else the logical array
PushedValue(names, tensors, logical, n) ==
    IF \E i \in DOMAIN names : i <= Len(tensors) /\ names[i] = n
    THEN tensors[CHOOSE i \in DOMAIN names : i <= Len(tensors) /\ names[i] = n]
    ELSE logical[n]

\* C30: under graph capture, when forward or backward has pushed its inputs
\* and launches the forward graph, every array of the shadow state_in and of
\* the shadow control holds the value of the declared input tensor for a
\* declared name and the value of the logical state_in/control array of the
\* same name otherwise; the tensor wins over the logical array.
C30_PushContents ==
    (last.op \in {"step", "backward"} /\ last.pushed # <<>>)
    => LET a == last.call
           vals == last.invals
           ns == Len(a.snames.names)
           nm == Len(a.mnames.names)
           nc == Len(a.cnames.names)
       IN  /\ \A n \in StateNames :
                 last.pushed[a.sinB][n] =
                     PushedValue(a.snames.names, Slice(vals, 0, ns), last.logical.sin, n)
           /\ \A n \in ControlNames :
                 last.pushed[a.ctlB][n] =
                     PushedValue(a.cnames.names, Slice(vals, ns + nm, ns + nm + nc),
                                 last.logical.ctl, n)

\* a forward pushed a state tensor whose value differs from the logical
\* state_in array of its name
C30_Witness ==
    /\ last.op = "step" /\ Returned
    /\ last.pushed # <<>>
    /\ Len(last.call.snames.names) > 0
    /\ last.invals[1] # last.logical.sin[last.call.snames.names[1]]
    /\ last.pushed[last.call.sinB][last.call.snames.names[1]] = last.invals[1]

C27_InitOnce ==
    [][/\ env'.inits <= 1
       /\ env'.initialized <=> env'.inits = 1
       /\ env'.inits # env.inits => (last'.op = "reset" /\ nresets = 0)
       /\ env.initialized =>
             /\ env'.initialized
             /\ env'.tape = env.tape
             /\ env'.state_0_bwd = env.state_0_bwd
             /\ env'.state_1_bwd = env.state_1_bwd
             /\ env'.states_mid_bwd = env.states_mid_bwd
             /\ env'.control_0_bwd = env.control_0_bwd
             /\ use_graph_capture =>
                   (ShadowObjs(env) \subseteq DOMAIN heap' /\ env.tape \in DOMAIN tapes')
             /\ update_graph.set => update_graph' = update_graph
             /\ bwd_update_graph.set => bwd_update_graph' = bwd_update_graph]_vars

\* a step reset the environment after both graphs were captured, and the
\* graphs, the shadow buffers and the tape are still there
C27_Witness ==
    /\ last.op = "step" /\ Returned
    /\ \E i \in DOMAIN last.slog : last.slog[i] = "reset"
    /\ use_graph_capture
    /\ update_graph.set /\ bwd_update_graph.set
    /\ env.inits = 1
    /\ nresets = 1 /\ nsteps = 2

\* C28: before the first reset() get_checkpoint, clear_grad and
\* initialize_trajectory (taking the checkpoint themselves) raise RuntimeError
\* and change nothing; after the first reset() they do not raise it.
C28_CheckpointNeedsReset ==
    [][(last'.op \in CheckpointCalls /\ nedits' = nedits + 1) =>
          IF env.initialized
          THEN last'.err # "RuntimeError"
          ELSE /\ last'.err = "RuntimeError"
               /\ env' = env
               /\ heap' = heap
               /\ tapes' = tapes
               /\ ctxs' = ctxs
               /\ update_graph' = update_graph
               /\ bwd_update_graph' = bwd_update_graph]_vars

\* initialize_trajectory() was called on an environment that was never reset
C28_Witness ==
    /\ last.op = "initialize_trajectory"
    /\ last.err = "RuntimeError"
    /\ ~env.initialized
    /\ nresets = 0 /\ nedits = 1

\* the mode without gradients and without graph capture
PlainMode == cfg.no_grad /\ ~use_graph_capture

\* C25: without gradients and without graph capture no tape is ever created
\* and UpdateFunction is never called: init_sim leaves self.tape and the
\* tensor lists None, and a step advances the state only by the substeps of
\* Environment.update(); in every mode a step goes through UpdateFunction
\* exactly when requires_grad or use_graph_capture holds.
C25_PlainMode ==
    /\ (PlainMode /\ env.initialized) =>
          /\ env.after_init.tape = NoTape
          /\ ~env.after_init.has_tensors
          /\ env.tape = NoTape
          /\ tapes = <<>> /\ nextTape = 1
          /\ ctxs = <<>>
          /\ ~update_graph.set /\ ~bwd_update_graph.set
    /\ last.op = "step" =>
          /\ last.via = "UpdateFunction" <=> (requires_grad \/ use_graph_capture)
          /\ last.via = "Environment.update" <=> PlainMode
    /\ (last.op = "step" /\ PlainMode) =>
          /\ Returned
          /\ last.call = NoCall
          /\ last.outs = <<>>
          /\ Len(last.log) = SimSubsteps
          /\ \A i \in DOMAIN last.log : last.log[i] = Ev("simulate", "logical")

\* a second step without gradients and without capture returned
C25_Witness ==
    /\ last.op = "step" /\ Returned
    /\ PlainMode /\ ~cfg.use_graph_capture
    /\ last.via = "Environment.update"
    /\ nsteps = 2
    /\ cfg.phys = "dyn"

\* the last step reset the environment
DidReset == \E i \in DOMAIN last.slog : last.slog[i] = "reset"

\* C26: a step that returns runs pre_physics_step, do_physics_step, the
\* increment of the progress counters, the clearing of reset_buf,
\* compute_observations, compute_reward, then reset only if the reset flag is
\* set, then render (a step whose physics step raises stops there);
\* extras["obs_before_reset"] is None exactly when the step did not reset, and
\* otherwise holds the observation of the state the physics step left, while
\* the observation returned is the one of the state after the reset.
C26_StepOrder ==
    last.op = "step" =>
       /\ ~Returned => last.slog = <<"pre_physics_step", "do_physics_step">>
       /\ Returned =>
             /\ last.slog = <<"pre_physics_step", "do_physics_step", "progress_buf",
                              "reset_buf", "compute_observations", "compute_reward">>
                            \o (IF DidReset THEN <<"reset">> ELSE <<>>) \o <<"render">>
             /\ \A i \in Envs :
                   /\ DidReset <=> env.reset_buf[i]
                   /\ DidReset <=> env.progress_buf[i] = 0
                   /\ ~DidReset => env.progress_buf[i] \in 1 .. (cfg.episode_length - 1)
             /\ last.extras.obs_before_reset.none <=> ~DidReset
             /\ last.extras = env.extras
             /\ last.obs = env.obs_buf
             /\ last.obs = StateGet(heap, env, "q")
             /\ DidReset => /\ last.extras.obs_before_reset.obs = last.obs_physics
                            /\ last.obs = NewState.a.q
             /\ ~DidReset => last.obs = last.obs_physics

\* a step reset the environment and returned an observation that differs from
\* the one it kept in extras
C26_Witness ==
    /\ last.op = "step" /\ Returned
    /\ DidReset
    /\ ~last.extras.obs_before_reset.none
    /\ last.extras.obs_before_reset.obs # last.obs
    /\ nsteps = 2

\* the tensors the names and the meshes of a call require
RequiredTensors(c) == NLen(c.snames) + NLen(c.mnames) + NLen(c.cnames) + Len(MeshSeq)

\* C21: a call of forward with fewer or more tensors than the declared names
\* (and the meshes) require fails, and it fails before anything else happens:
\* the log of the call holds nothing but the exception.
C21_CountMismatchFails ==
    (last.op = "step" /\ last.via = "UpdateFunction" /\ last.call.bound
        /\ Len(last.call.tensors) # RequiredTensors(last.call)) =>
       /\ ~Returned
       /\ \A i \in DOMAIN last.log : last.log[i].ev = "raise"

\* C29: an environment constructed with use_graph_capture=True for a device
\* without graph capture fails in its constructor, so it is never reset or
\* stepped.
C29_UnsupportedCaptureFatal ==
    (cfg.use_graph_capture /\ cfg.device # "cuda") =>
       /\ Construct(cfg).err # ""
       /\ nresets = 0 /\ nsteps = 0
       /\ ~env.initialized

C31_AllOutputAdjointsWritten ==
    (last.op = "backward" /\ last.assigned # <<>>) => last.assigned = last.outadj

\* the last call was a backward that raised the missing-gradient error
MissingGradientRaised == last.op = "backward" /\ last.err = "KeyError"

\* C33: a backward that raises the missing-gradient error returns no adjoint
\* and never reaches tape.zero(): every array in tape.gradients keeps the
\* adjoint the reverse pass left in it, so that is what a later backward on
\* the same tape starts from.
C33_MissingGradientSkipsZero ==
    MissingGradientRaised
    => /\ last.adj = <<>>
       /\ ~HasEv(last.log, "tape_zero", "")
       /\ HasEv(last.log, "print_missing_gradient", last.errname)
       /\ \A p \in last.rev :
             p[1][1] \in DOMAIN heap => heap[p[1][1]].g[p[1][2]] = p[2]

\* the missing-gradient error was raised on the persistent tape with a
\* non-zero adjoint left in one of its arrays, and the backward of an earlier
\* step on the same tape is still to run
C33_Witness ==
    /\ MissingGradientRaised /\ last.call.use_graph_capture
    /\ last.call.tape = env.tape
    /\ ctxs # <<>> /\ ctxs[Len(ctxs)].tape = last.call.tape
    /\ \E p \in last.rev :
          /\ p[2] # 0
          /\ p[1][1] \in DOMAIN heap /\ heap[p[1][1]].g[p[1][2]] # 0
          /\ p[1] \in tapes[env.tape].gradients

\* C35: the progress counter counts the steps since the last reset. Every
\* step that returns either increments the counter of every environment by
\* one or, when the counter reaches episode_length, marks the environment and
\* resets it to zero in that step; a step that raises and a reset that raises
\* leave the counters alone, a reset that returns zeroes them. So all
\* environments hold the same counter in 0 .. episode_length - 1 and a reset
\* inside step happens exactly every episode_length steps, for all
\* environments at once.
C35_ProgressCounter ==
    [][/\ \A i, j \in Envs : env'.progress_buf[i] = env'.progress_buf[j]
       /\ \A i \in Envs : env'.progress_buf[i] \in 0 .. (cfg.episode_length - 1)
       /\ (last'.op = "step" /\ last'.err = "")
          => \A i \in Envs :
                IF env.progress_buf[i] + 1 = cfg.episode_length
                THEN /\ env'.progress_buf[i] = 0
                     /\ env'.reset_buf[i]
                     /\ \E k \in DOMAIN last'.slog : last'.slog[k] = "reset"
                ELSE /\ env'.progress_buf[i] = env.progress_buf[i] + 1
                     /\ ~env'.reset_buf[i]
                     /\ \A k \in DOMAIN last'.slog : last'.slog[k] # "reset"
       /\ (last'.op = "step" /\ last'.err # "") => env'.progress_buf = env.progress_buf
       /\ (last'.op = "reset" /\ last'.err = "") => \A i \in Envs : env'.progress_buf[i] = 0
       /\ (last'.op = "reset" /\ last'.err # "") => env'.progress_buf = env.progress_buf
      ]_vars

\* the second step of an episode of length two has reset every environment,
\* after a first step that left every counter at one
C35_Witness ==
    /\ last.op = "step" /\ Returned /\ DidReset
    /\ cfg.episode_length = ShortEpisode + 1
    /\ nsteps = 2 /\ nresets = 1
    /\ \A i \in Envs : env.progress_buf[i] = 0 /\ env.reset_buf[i]

\* C34: reset(env_ids, clear_grad) leaves the action row of every environment
\* in env_ids zero and the action row of every other environment as it was,
\* whatever clear_grad and requires_grad are; for all environments, every
\* action row is zero.
C34_ResetClearsActionRows ==
    (last.op = "reset" /\ last.env_ids # {})
    => \A i \in Envs :
          env.actions[i] = IF i \in last.env_ids THEN 0 ELSE last.actions_in[i]

\* C32: at every call of UpdateFunction made by do_physics_step, each declared
\* state tensor holds the values of the array of the same name on state_0 and
\* each declared control tensor the values of the array on control_0, after
\* any sequence of reset, state.assign, control.assign, clear_grad, step and
\* backward; an eager forward copies no declared tensor into a buffer.
C32_DeclaredTensorsMatchBuffers ==
    (last.op = "step" /\ last.via = "UpdateFunction")
    => /\ last.synced
       /\ ~last.call.use_graph_capture => last.pushed = <<>>

\* an eager step that returned was called, after a state.assign or a
\* clear_grad, with declared state tensors that own their storage (no views
\* of state_0) and hold a non-zero value
C32_Witness ==
    /\ last.op = "step" /\ last.via = "UpdateFunction" /\ last.synced
    /\ Returned /\ ~last.call.use_graph_capture
    /\ nedits = 1
    /\ Len(last.decl) > 1
    /\ \E i \in 1 .. Len(state_tensors_names) : last.decl[i].own /\ last.decl[i].v # 0

====
